---- MODULE Spec2Model ----
(***************************************************************************)
(* The CopilotKit run loop (copilotkit/runloop.py) and the part of the     *)
(* event protocol it uses (copilotkit/protocol.py): the per-run event      *)
(* queue, the consumer generator copilotkit_run, the producer task, the    *)
(* event handler handle_runtime_event and the state predictor              *)
(* predict_state.                                                          *)
(*                                                                         *)
(* Text that the code processes character by character (the argument       *)
(* chunks of a tool call) is a sequence of one-character strings; names    *)
(* and ids the code only compares are TLA+ strings.                        *)
(***************************************************************************)
EXTENDS Integers, Sequences, FiniteSets, TLC

(***************************************************************************)
(* Bounds of the model.                                                    *)
(***************************************************************************)
\* events the producer of a run publishes after its script (Spec)
MaxFree == 1
\* events each producer publishes when two runs execute (SpecTwoRuns)
MaxFreeTwo == 1
\* events waiting in a queue (asyncio.Queue() itself is unbounded)
MaxQueue == 2
\* the queue_put calls a task makes under the event loop
MaxCalls == 2

\* Python's None, where the code holds an Optional[str]
None == "<None>"

(***************************************************************************)
(* protocol.py: RuntimeEventTypes and RuntimeMetaEventName.  An Enum       *)
(* member is modelled by a value distinct from its wire string: the        *)
(* serializer turns the member into the string (EnumValue).                *)
(***************************************************************************)
RuntimeEventTypes ==
    { "TextMessageStart", "TextMessageContent", "TextMessageEnd",
      "ActionExecutionStart", "ActionExecutionArgs", "ActionExecutionEnd",
      "ActionExecutionResult", "AgentStateMessage", "MetaEvent",
      "RunStarted", "RunFinished", "RunError", "NodeStarted", "NodeFinished" }

RuntimeMetaEventName == { "LangGraphInterruptEvent", "PredictState", "Exit" }

\* an Enum member: RuntimeEventTypes.X is not the string "X"
EnumMember(wire) == [enum |-> wire]

\* Enum.value
EnumValue(member) == member.enum

\* a variant of ProtocolEventTypes: control events are forwarded as well
ProtocolEventTypesAndMeta ==
    { "TextMessageStart", "TextMessageContent", "TextMessageEnd",
      "ActionExecutionStart", "ActionExecutionArgs", "ActionExecutionEnd",
      "ActionExecutionResult", "AgentStateMessage", "MetaEvent" }

ProtocolEventTypes ==
    { "TextMessageStart", "TextMessageContent", "TextMessageEnd",
      "ActionExecutionStart", "ActionExecutionArgs", "ActionExecutionEnd",
      "ActionExecutionResult", "AgentStateMessage" }

(***************************************************************************)
(* JSON values.  Every value has the same three fields: kind, the text of  *)
(* a scalar (or the raw text of an array) and the members of an object.    *)
(***************************************************************************)
JString(t) == [kind |-> "string", text |-> t, members |-> <<>>]
JNumber(t) == [kind |-> "number", text |-> t, members |-> <<>>]
JBool(t) == [kind |-> "bool", text |-> t, members |-> <<>>]
JNull == [kind |-> "null", text |-> <<>>, members |-> <<>>]
JArray(t) == [kind |-> "array", text |-> t, members |-> <<>>]
JObject(m) == [kind |-> "object", text |-> <<>>, members |-> m]

\* acc[key] = value on a dict
DictSet(d, key, value) ==
    [k \in (DOMAIN d) \cup {key} |-> IF k = key THEN value ELSE d[k]]

\* a variant of DictMerge: on a key of both, the value of a is kept
DictMergeKeepFirst(a, b) ==
    [k \in (DOMAIN a) \cup (DOMAIN b) |-> IF k \in DOMAIN a THEN a[k] ELSE b[k]]

\* {**a, **b}
DictMerge(a, b) ==
    [k \in (DOMAIN a) \cup (DOMAIN b) |-> IF k \in DOMAIN b THEN b[k] ELSE a[k]]

(***************************************************************************)
(* Strings as character sequences.                                         *)
(***************************************************************************)
Drop(s, n) == IF n >= Len(s) THEN <<>> ELSE SubSeq(s, n + 1, Len(s))

Take(s, n) == IF n >= Len(s) THEN s ELSE SubSeq(s, 1, n)

IsSpace(c) == c \in {" ", "\n", "\t", "\r"}

RECURSIVE LStrip(_)
LStrip(s) == IF s # <<>> /\ IsSpace(Head(s)) THEN LStrip(Tail(s)) ELSE s

RECURSIVE RStrip(_)
RStrip(s) ==
    IF s # <<>> /\ IsSpace(s[Len(s)]) THEN RStrip(SubSeq(s, 1, Len(s) - 1)) ELSE s

\* str.strip(): both ends
Strip(s) == RStrip(LStrip(s))

NumberChars == {"0", "1", "2", "3", "4", "5", "6", "7", "8", "9", ".", "-"}

\* the index of the first unescaped '"' of s at or after position i, 0 if none
RECURSIVE FindQuote(_, _)
FindQuote(s, i) ==
    IF i > Len(s) THEN 0
    ELSE IF s[i] = "\"" /\ s[i - 1] # "\\" THEN i
    ELSE FindQuote(s, i + 1)

\* the length of the longest prefix of s made of number characters
RECURSIVE NumberSpan(_)
NumberSpan(s) ==
    IF s # <<>> /\ Head(s) \in NumberChars THEN 1 + NumberSpan(Tail(s)) ELSE 0

(***************************************************************************)
(* The tolerant parser PartialJSONParser().parse that predict_state calls. *)
(* A parse step yields [ok, val, rest]; ok = FALSE is the parser raising.  *)
(***************************************************************************)
ParseRaise == [ok |-> FALSE, val |-> JNull, rest |-> <<>>]

ParseOk(v, r) == [ok |-> TRUE, val |-> v, rest |-> r]

\* a variant of parse_string: an unterminated string is an error
parse_string_strict(s) ==
    LET end == FindQuote(s, 2)
    IN  IF end = 0 THEN ParseRaise
        ELSE ParseOk(JString(SubSeq(s, 2, end - 1)), Drop(s, end))

\* an unterminated string yields the text read so far
parse_string(s) ==
    LET end == FindQuote(s, 2)
    IN  IF end = 0 THEN ParseOk(JString(Tail(s)), <<>>)
        ELSE ParseOk(JString(SubSeq(s, 2, end - 1)), Drop(s, end))

\* an incomplete number is returned as the text read
parse_number(s) ==
    LET i == NumberSpan(s)
        num == Take(s, i)
    IN  IF num[Len(num)] \in {".", "-"} THEN ParseOk(JString(num), <<>>)
        ELSE IF \E j \in 2..Len(num) : num[j] = "-" THEN ParseRaise
        ELSE ParseOk(JNumber(num), Drop(s, i))

RECURSIVE parse_any(_)
RECURSIVE parse_object_loop(_, _)
RECURSIVE parse_array_loop(_)

\* after an item: strip, skip one comma, strip
AfterItem(s) ==
    LET t == Strip(s)
    IN  IF t # <<>> /\ Head(t) = "," THEN Strip(Tail(t)) ELSE t

\* the while loop of parse_object; acc is the dict built so far
parse_object_loop(s, acc) ==
    IF s = <<>> THEN ParseOk(JObject(acc), s)
    ELSE IF Head(s) = "}" THEN ParseOk(JObject(acc), Tail(s))
    ELSE
        LET k == parse_any(s)
            s1 == Strip(k.rest)
        IN  IF ~k.ok \/ k.val.kind \in {"array", "object"} THEN ParseRaise
            ELSE IF s1 = <<>> \/ Head(s1) = "}"
                THEN ParseOk(JObject(DictSet(acc, k.val.text, JNull)), s1)
            ELSE IF Head(s1) # ":" THEN ParseRaise
            ELSE
                LET s2 == Strip(Tail(s1))
                IN  IF s2 = <<>> \/ Head(s2) \in {",", "}"}
                        THEN ParseOk(JObject(DictSet(acc, k.val.text, JNull)),
                                     IF s2 # <<>> /\ Head(s2) = "," THEN Tail(s2) ELSE s2)
                    ELSE
                        LET v == parse_any(s2)
                        IN  IF ~v.ok THEN ParseRaise
                            ELSE parse_object_loop(AfterItem(v.rest),
                                                   DictSet(acc, k.val.text, v.val))

\* the while loop of parse_array; yields the rest after the array
parse_array_loop(s) ==
    IF s = <<>> THEN ParseOk(JNull, s)
    ELSE IF Head(s) = "]" THEN ParseOk(JNull, Tail(s))
    ELSE
        LET v == parse_any(s)
        IN  IF ~v.ok THEN ParseRaise ELSE parse_array_loop(AfterItem(v.rest))

parse_any(s) ==
    IF s = <<>> THEN ParseRaise
    ELSE IF IsSpace(Head(s)) THEN parse_any(Strip(s))
    ELSE IF Head(s) = "{" THEN parse_object_loop(Strip(Tail(s)), <<>>)
    ELSE IF Head(s) = "["
        THEN LET a == parse_array_loop(Strip(Tail(s)))
             IN  IF ~a.ok THEN ParseRaise
                 ELSE ParseOk(JArray(Take(s, Len(s) - Len(a.rest))), a.rest)
    ELSE IF Head(s) = "\"" THEN parse_string(s)
    ELSE IF Head(s) = "t" THEN ParseOk(JBool(<<"t">>), Drop(s, 4))
    ELSE IF Head(s) = "f" THEN ParseOk(JBool(<<"f">>), Drop(s, 5))
    ELSE IF Head(s) = "n" THEN ParseOk(JNull, Drop(s, 4))
    ELSE IF Head(s) \in NumberChars THEN parse_number(s)
    ELSE ParseRaise

\* PartialJSONParser().parse(s): "" parses to {}; anything left after the
\* value is reported and dropped
PartialJSONParse(s) ==
    IF s = <<>> THEN ParseOk(JObject(<<>>), <<>>) ELSE parse_any(s)

(***************************************************************************)
(* protocol.py: the event constructors.  An event is a dict; its "type"    *)
(* holds the Enum member.                                                  *)
(***************************************************************************)
text_message_start(message_id, parent_message_id) ==
    [type |-> EnumMember("TextMessageStart"), messageId |-> message_id,
     parentMessageId |-> parent_message_id]

text_message_content(message_id, content) ==
    [type |-> EnumMember("TextMessageContent"), messageId |-> message_id,
     content |-> content]

text_message_end(message_id) ==
    [type |-> EnumMember("TextMessageEnd"), messageId |-> message_id]

action_execution_start(action_execution_id, action_name, parent_message_id) ==
    [type |-> EnumMember("ActionExecutionStart"),
     actionExecutionId |-> action_execution_id, actionName |-> action_name,
     parentMessageId |-> parent_message_id]

action_execution_args(action_execution_id, args) ==
    [type |-> EnumMember("ActionExecutionArgs"),
     actionExecutionId |-> action_execution_id, args |-> args]

action_execution_end(action_execution_id) ==
    [type |-> EnumMember("ActionExecutionEnd"),
     actionExecutionId |-> action_execution_id]

action_execution_result(action_name, action_execution_id, result) ==
    [type |-> EnumMember("ActionExecutionResult"), actionName |-> action_name,
     actionExecutionId |-> action_execution_id, result |-> result]

agent_state_message(thread_id, agent_name, node_name, run_id, active, role, state, running) ==
    [type |-> EnumMember("AgentStateMessage"), threadId |-> thread_id,
     agentName |-> agent_name, nodeName |-> node_name, runId |-> run_id,
     active |-> active, role |-> role, state |-> state, running |-> running]

meta_event(name, value) ==
    [type |-> EnumMember("MetaEvent"), name |-> EnumMember(name), value |-> value]

RunStarted(state) == [type |-> EnumMember("RunStarted"), state |-> state]

RunFinished(state) == [type |-> EnumMember("RunFinished"), state |-> state]

RunError(error) == [type |-> EnumMember("RunError"), error |-> error]

NodeStarted(node_name, state) ==
    [type |-> EnumMember("NodeStarted"), node_name |-> node_name, state |-> state]

NodeFinished(node_name, state) ==
    [type |-> EnumMember("NodeFinished"), node_name |-> node_name, state |-> state]

\* an entry of a predict-state configuration, in the dict's order; tool_argument
\* is an optional key of PredictStateConfig
PredictEntry(key, tool_name) == [key |-> key, tool_name |-> tool_name]

PredictEntryArg(key, tool_name, tool_argument) ==
    [key |-> key, tool_name |-> tool_name, tool_argument |-> tool_argument]

(***************************************************************************)
(* protocol.py: the serializer.  A line is the JSON object of one event;   *)
(* the text returned for n events is n lines, each ended by a newline.     *)
(***************************************************************************)
\* the keys whose value is an Enum member: "type" of every event, "name" of a
\* meta event
EnumKeys == {"type", "name"}

\* serialize_event: v.value if isinstance(v, Enum) else v, for every key
serialize_event(event) ==
    [k \in DOMAIN event |-> IF k \in EnumKeys THEN EnumValue(event[k]) ELSE event[k]]

\* emit_runtime_events(*events): "\n".join(json.dumps(...)) + "\n"
emit_runtime_events(events) == [i \in 1..Len(events) |-> serialize_event(events[i])]

emit_runtime_event(event) == emit_runtime_events(<<event>>)

\* the members of RuntimeEventTypes and the value of each
RuntimeEventTypeMembers ==
    [TEXT_MESSAGE_START |-> "TextMessageStart",
     TEXT_MESSAGE_CONTENT |-> "TextMessageContent",
     TEXT_MESSAGE_END |-> "TextMessageEnd",
     ACTION_EXECUTION_START |-> "ActionExecutionStart",
     ACTION_EXECUTION_ARGS |-> "ActionExecutionArgs",
     ACTION_EXECUTION_END |-> "ActionExecutionEnd",
     ACTION_EXECUTION_RESULT |-> "ActionExecutionResult",
     AGENT_STATE_MESSAGE |-> "AgentStateMessage",
     META_EVENT |-> "MetaEvent",
     RUN_STARTED |-> "RunStarted",
     RUN_FINISHED |-> "RunFinished",
     RUN_ERROR |-> "RunError",
     NODE_STARTED |-> "NodeStarted",
     NODE_FINISHED |-> "NodeFinished"]

\* the keys of the dict each constructor returns, in the dict's order
DictKeys ==
    [TextMessageStart |-> <<"type", "messageId", "parentMessageId">>,
     TextMessageContent |-> <<"type", "messageId", "content">>,
     TextMessageEnd |-> <<"type", "messageId">>,
     ActionExecutionStart |->
         <<"type", "actionExecutionId", "actionName", "parentMessageId">>,
     ActionExecutionArgs |-> <<"type", "actionExecutionId", "args">>,
     ActionExecutionEnd |-> <<"type", "actionExecutionId">>,
     ActionExecutionResult |->
         <<"type", "actionName", "actionExecutionId", "result">>,
     MetaEvent |-> <<"type", "name", "value">>]

\* The text json.dumps writes is a sequence of characters.  A name or an id,
\* which holds no character json.dumps escapes, is one element of it.
Newline == "\n"

Quote == "\""

Backslash == "\\"

\* the keys whose str value is given character by character
CharKeys == {"content", "args", "result"}

\* a variant of json_escape: every character is written as it is
json_escape_nothing(chars) == chars

\* json.dumps of the characters of a str: the line break, the quote and the
\* backslash are escaped
RECURSIVE json_escape(_)
json_escape(chars) ==
    IF chars = <<>> THEN <<>>
    ELSE LET c == Head(chars)
         IN  (IF c = Newline THEN <<Backslash, "n">>
              ELSE IF c \in {Quote, Backslash} THEN <<Backslash, c>>
              ELSE <<c>>) \o json_escape(Tail(chars))

\* json.dumps of the value under a key: a str, None or a bool
DumpValue(key, v) ==
    IF key \in CharKeys THEN <<Quote>> \o json_escape(v) \o <<Quote>>
    ELSE IF key = "value" THEN <<IF v THEN "true" ELSE "false">>
    ELSE IF v = None THEN <<"null">>
    ELSE <<Quote, v, Quote>>

\* json.dumps of the items of a dict, separated by ", "
RECURSIVE DumpItems(_, _)
DumpItems(obj, keys) ==
    IF keys = <<>> THEN <<>>
    ELSE <<Quote, Head(keys), Quote, ":", " ">>
         \o DumpValue(Head(keys), obj[Head(keys)])
         \o (IF Len(keys) = 1 THEN <<>> ELSE <<",", " ">> \o DumpItems(obj, Tail(keys)))

\* json.dumps of a serialized event
DumpLine(obj) == <<"{">> \o DumpItems(obj, DictKeys[obj.type]) \o <<"}">>

\* "\n".join(lines)
RECURSIVE JoinLines(_)
JoinLines(lines) ==
    IF lines = <<>> THEN <<>>
    ELSE IF Len(lines) = 1 THEN lines[1]
    ELSE lines[1] \o <<Newline>> \o JoinLines(Tail(lines))

\* the str emit_runtime_events returns: the dumped lines joined, then "\n"
EmitText(events) ==
    LET objs == emit_runtime_events(events)
    IN  JoinLines([i \in 1..Len(objs) |-> DumpLine(objs[i])]) \o <<Newline>>

\* json.dumps / json.loads of a state dict, carried in a snapshot as a string
json_dumps(d) == [json |-> d]

json_loads(s) == s.json

(***************************************************************************)
(* runloop.py: _filter_state, predict_state, handle_runtime_event.         *)
(***************************************************************************)
\* the default exclude_keys
ExcludeKeys == {"messages", "id"}

\* a variant of _filter_state: every key is kept
_filter_state_keep_all(state) == state

_filter_state(state) ==
    [k \in (DOMAIN state) \ ExcludeKeys |-> state[k]]

\* config.get("tool_name") for config in ....values()
ToolNames(configuration) ==
    { configuration[i].tool_name : i \in 1..Len(configuration) }

\* a variant of HasToolArgument: tool_argument is never looked at
HasToolArgumentNever(v) == FALSE

\* v.get("tool_argument") is not None
HasToolArgument(v) == "tool_argument" \in DOMAIN v

(* The for loop of predict_state over predict_state_configuration.items(),   *)
(* from entry i on.  current_arguments.get raises AttributeError when the   *)
(* parsed value is not a dict; what the loop wrote before that stays        *)
(* written.                                                                 *)
RECURSIVE PredictLoop(_, _, _, _, _, _)
PredictLoop(configuration, i, tool, current_arguments, predicted, emit_update) ==
    IF i > Len(configuration)
        THEN [predicted_state |-> predicted, emit_update |-> emit_update,
              raised |-> None]
    ELSE
        LET v == configuration[i] IN
        IF v.tool_name # tool
            THEN PredictLoop(configuration, i + 1, tool, current_arguments,
                             predicted, emit_update)
        ELSE IF HasToolArgument(v)
            THEN IF current_arguments.kind # "object"
                    THEN [predicted_state |-> predicted, emit_update |-> emit_update,
                          raised |-> "AttributeError"]
                 ELSE IF v.tool_argument \in DOMAIN current_arguments.members
                         /\ current_arguments.members[v.tool_argument].kind # "null"
                    THEN PredictLoop(configuration, i + 1, tool, current_arguments,
                                     DictSet(predicted, v.key,
                                             current_arguments.members[v.tool_argument]),
                                     TRUE)
                 ELSE PredictLoop(configuration, i + 1, tool, current_arguments,
                                  predicted, emit_update)
        ELSE PredictLoop(configuration, i + 1, tool, current_arguments,
                         DictSet(predicted, v.key, current_arguments), TRUE)

\* the snapshot predict_state returns when emit_update is set
PredictMessage(execution) ==
    agent_state_message(execution.thread_id, execution.agent_name,
                        execution.node_name, execution.run_id, TRUE, "assistant",
                        json_dumps(_filter_state(
                            DictMerge(execution.state, execution.predicted_state))),
                        TRUE)

\* a variant of OnToolStart: a new tool call forgets what was predicted
OnToolStartForgets(execution, event) ==
    [execution EXCEPT !.current_tool_call = event.actionName,
                      !.argument_buffer = <<>>,
                      !.predicted_state = <<>>]

\* a variant of OnToolStart: the buffer of the previous tool call is kept
OnToolStartKeepBuffer(execution, event) ==
    [execution EXCEPT !.current_tool_call = event.actionName]

\* the ActionExecutionStart branch of predict_state
OnToolStart(execution, event) ==
    [execution EXCEPT !.current_tool_call = event.actionName,
                      !.argument_buffer = <<>>]

\* predict_state: [execution, message (<<>> is None), raised]
predict_state(event, execution) ==
    IF event.type = EnumMember("ActionExecutionStart")
        THEN [execution |-> OnToolStart(execution, event),
              message |-> <<>>, raised |-> None]
    ELSE IF event.type = EnumMember("ActionExecutionArgs")
        THEN LET buffered == [execution EXCEPT
                                 !.argument_buffer = execution.argument_buffer \o event.args]
                 parsed == PartialJSONParse(buffered.argument_buffer)
                 loop == PredictLoop(buffered.predict_state_configuration, 1,
                                     buffered.current_tool_call, parsed.val,
                                     buffered.predicted_state, FALSE)
                 updated == [buffered EXCEPT !.predicted_state = loop.predicted_state]
             IN  IF buffered.current_tool_call
                        \notin ToolNames(buffered.predict_state_configuration)
                     THEN [execution |-> buffered, message |-> <<>>, raised |-> None]
                 ELSE IF ~parsed.ok
                     THEN [execution |-> buffered, message |-> <<>>, raised |-> None]
                 ELSE IF loop.raised # None
                     THEN [execution |-> updated, message |-> <<>>,
                           raised |-> loop.raised]
                 ELSE IF loop.emit_update
                     THEN [execution |-> updated,
                           message |-> <<PredictMessage(updated)>>, raised |-> None]
                 ELSE [execution |-> updated, message |-> <<>>, raised |-> None]
    ELSE [execution |-> execution, message |-> <<>>, raised |-> None]

\* a variant of NodeMessage: running follows active
NodeMessageRunningIfActive(execution, active) ==
    agent_state_message(execution.thread_id, execution.agent_name,
                        execution.node_name, execution.run_id, active, "assistant",
                        json_dumps(_filter_state(execution.state)), active)

\* the snapshot handle_runtime_event emits for NodeStarted and NodeFinished
NodeMessage(execution, active) ==
    agent_state_message(execution.thread_id, execution.agent_name,
                        execution.node_name, execution.run_id, active, "assistant",
                        json_dumps(_filter_state(execution.state)), TRUE)

\* a variant of ProtocolLines: the snapshot before the event that caused it
ProtocolLinesSnapshotFirst(event, message) ==
    emit_runtime_events(message \o <<event>>)

\* the protocol branch: the event first, then the predictor's snapshot if any
ProtocolLines(event, message) == emit_runtime_events(<<event>> \o message)

\* a variant of ResetPrediction: the argument buffer is kept
ResetPredictionKeepBuffer(execution, state) ==
    [execution EXCEPT !.predict_state_configuration = <<>>,
                      !.current_tool_call = None,
                      !.predicted_state = <<>>,
                      !.state = state]

\* a variant of ResetPrediction: the predicted state is kept
ResetPredictionKeepPredicted(execution, state) ==
    [execution EXCEPT !.predict_state_configuration = <<>>,
                      !.current_tool_call = None,
                      !.argument_buffer = <<>>,
                      !.state = state]

\* the NodeFinished branch: reset the prediction fields, take the event's state
ResetPrediction(execution, state) ==
    [execution EXCEPT !.predict_state_configuration = <<>>,
                      !.current_tool_call = None,
                      !.argument_buffer = <<>>,
                      !.predicted_state = <<>>,
                      !.state = state]

\* a variant of OnNodeFinished: the node the event names becomes the node
OnNodeFinishedTakesName(execution, event) ==
    [ResetPrediction(execution, event.state) EXCEPT !.node_name = event.node_name]

\* the NodeFinished branch: event["node_name"] is not read
OnNodeFinished(execution, event) == ResetPrediction(execution, event.state)

\* a variant of OnPredictState: the new entries are added to the old ones
OnPredictStateMerge(execution, value) ==
    [execution EXCEPT !.predict_state_configuration = @ \o value]

\* the MetaEvent PredictState branch
OnPredictState(execution, value) ==
    [execution EXCEPT !.predict_state_configuration = value]

\* a variant of OnExit: an exit request is never withdrawn
OnExitSticky(execution, value) ==
    [execution EXCEPT !.should_exit = @ \/ value]

\* a variant of OnExit: the exit request finishes the run
OnExitFinishes(execution, value) ==
    [execution EXCEPT !.should_exit = value, !.is_finished = value]

\* the MetaEvent Exit branch
OnExit(execution, value) == [execution EXCEPT !.should_exit = value]

\* the RunFinished branch
OnRunFinished(execution) == [execution EXCEPT !.is_finished = TRUE]

\* a variant of the RunError branch: the error is printed and the loop goes on
OnRunErrorGoOn(execution) == execution

\* the RunError branch: the error is printed, never raised
OnRunError(execution) == [execution EXCEPT !.is_finished = TRUE]

\* handle_runtime_event: [execution, json_lines (<<>> is None), raised]
Handled(execution, json_lines) ==
    [execution |-> execution, json_lines |-> json_lines, raised |-> None]

\* a variant of Ignored: an event of no known kind is an error
IgnoredRaises(execution) ==
    [execution |-> execution, json_lines |-> <<>>, raised |-> "KeyError"]

\* no branch matches (or a MetaEvent of another name): return None
Ignored(execution) == Handled(execution, <<>>)

handle_runtime_event(event, execution) ==
    IF EnumValue(event.type) \in ProtocolEventTypes
        THEN LET p == IF event.type \in {EnumMember("ActionExecutionStart"),
                                         EnumMember("ActionExecutionArgs")}
                          THEN predict_state(event, execution)
                          ELSE [execution |-> execution, message |-> <<>>,
                                raised |-> None]
             IN  IF p.raised # None
                     THEN [execution |-> p.execution, json_lines |-> <<>>,
                           raised |-> p.raised]
                     ELSE Handled(p.execution, ProtocolLines(event, p.message))
    ELSE IF event.type = EnumMember("MetaEvent")
        THEN IF event.name = EnumMember("PredictState")
                 THEN Handled(OnPredictState(execution, event.value), <<>>)
             ELSE IF event.name = EnumMember("Exit")
                 THEN Handled(OnExit(execution, event.value), <<>>)
             ELSE Ignored(execution)
    ELSE IF event.type = EnumMember("RunStarted")
        THEN Handled([execution EXCEPT !.state = event.state], <<>>)
    ELSE IF event.type = EnumMember("NodeStarted")
        THEN LET e == [execution EXCEPT !.node_name = event.node_name,
                                        !.state = event.state]
             IN  Handled(e, emit_runtime_event(NodeMessage(e, TRUE)))
    ELSE IF event.type = EnumMember("NodeFinished")
        THEN LET e == OnNodeFinished(execution, event)
             IN  Handled(e, emit_runtime_event(NodeMessage(e, FALSE)))
    ELSE IF event.type = EnumMember("RunFinished")
        THEN Handled(OnRunFinished(execution), <<>>)
    ELSE IF event.type = EnumMember("RunError")
        THEN Handled(OnRunError(execution), <<>>)
    ELSE Ignored(execution)

(***************************************************************************)
(* The inputs: argument chunks, engine states, configurations, events.     *)
(***************************************************************************)
\* {"name": "Al
ChunkOpen == <<"{", "\"", "n", "a", "m", "e", "\"", ":", " ", "\"", "A", "l">>
\* ice"}
ChunkClose == <<"i", "c", "e", "\"", "}">>
\* [1    (a JSON array: valid JSON, not an object)
ChunkArray == <<"[", "1">>
\* {"name": null}
ChunkNull == <<"{", "\"", "n", "a", "m", "e", "\"", ":", " ", "n", "u", "l", "l", "}">>

ArgName == <<"n", "a", "m", "e">>

StateEmpty == <<>>
StateBob ==
    [name |-> JString(<<"B", "o", "b">>), messages |-> JArray(<<"[", "]">>),
     id |-> JString(<<"7">>)]
StateCount == [count |-> JNumber(<<"1">>)]

\* {"name": {tool_name: "update_user", tool_argument: "name"}}
ConfigName == <<PredictEntryArg("name", "update_user", ArgName)>>
\* {"draft": {tool_name: "update_user"}}: the whole argument object
ConfigWhole == <<PredictEntry("draft", "update_user")>>

\* an event of a kind the run loop does not know
UnknownEvent == [type |-> EnumMember("Custom")]

\* a snapshot the producer publishes itself
ForeignSnapshot ==
    agent_state_message("thread_x", "sub_agent", "sub_node", "run_x", TRUE,
                        "assistant", json_dumps(StateCount), TRUE)

\* complete argument texts: {"name": "Alice"}, {"name": null}, {"n": 1}, [1]
DocAlice == ChunkOpen \o ChunkClose
DocNull == ChunkNull
DocOther == <<"{", "\"", "n", "\"", ":", " ", "1", "}">>
DocArray == <<"[", "1", "]">>
\* }x    (no JSON text starts like this)
Garbage == <<"}", "x">>

ValidDocs == {DocAlice, DocNull, DocOther, DocArray}

\* {"hits": {tool_name: "search", tool_argument: "name"}}
ConfigSearch == <<PredictEntryArg("hits", "search", ArgName)>>
\* three entries: an argument of update_user, its whole argument object, and
\* the whole argument object of search
ConfigMixed ==
    <<PredictEntryArg("name", "update_user", ArgName),
      PredictEntry("draft", "update_user"), PredictEntry("hits", "search")>>

\* {"id": {tool_name: "update_user", tool_argument: "name"}}: the predicted key
\* is one of the keys _filter_state excludes
ConfigId == <<PredictEntryArg("id", "update_user", ArgName)>>

\* two entries of update_user: its whole argument object first, then one of
\* its arguments
ConfigWholeFirst ==
    <<PredictEntry("draft", "update_user"),
      PredictEntryArg("name", "update_user", ArgName)>>

Configs ==
    {ConfigName, ConfigWhole, ConfigSearch, ConfigMixed, ConfigId, ConfigWholeFirst}

EngineError == "EngineError"
ProducerError == "ProducerError"

TextFeed ==
    << text_message_start("m1", None) >>

ToolFeed ==
    << action_execution_start("exec1", "update_user", None),
      action_execution_start("exec2", "search", None),
      action_execution_args("exec1", ChunkOpen),
      action_execution_args("exec1", ChunkClose),
      action_execution_args("exec1", ChunkArray),
      action_execution_args("exec1", ChunkNull),
      ForeignSnapshot >>

MetaFeed ==
    << meta_event("PredictState", ConfigName), meta_event("PredictState", ConfigWhole),
      meta_event("Exit", TRUE) >>

LifecycleFeed ==
    << RunStarted(StateBob), NodeStarted("node_a", StateBob),
      NodeFinished("node_b", StateCount), RunFinished(StateEmpty),
      RunError(EngineError), UnknownEvent >>

\* what a producer may publish at each free step (a sequence: the values of
\* two MetaEvents need not be comparable)
Feed == TextFeed \o ToolFeed \o MetaFeed \o LifecycleFeed

\* what the producer of run r may publish when two runs execute: every event
\* names its run
StateOf(r) == IF r = "r1" THEN StateBob ELSE StateCount

FeedTwo(r) ==
    << text_message_start(r, None), NodeStarted(r, StateOf(r)),
       RunFinished(StateOf(r)) >>

\* the scripts: the events a producer publishes in this order, with its free
\* steps in between
ScriptText ==
    <<text_message_start("m1", None), text_message_content("m1", "Hi"),
      text_message_end("m1"), RunFinished(StateEmpty)>>

ScriptPredict ==
    <<meta_event("PredictState", ConfigName),
      action_execution_start("exec1", "update_user", None),
      action_execution_args("exec1", ChunkOpen),
      action_execution_args("exec1", ChunkClose),
      action_execution_end("exec1"),
      action_execution_result("update_user", "exec1", "ok")>>

ScriptWhole ==
    <<NodeStarted("node_a", StateBob), meta_event("PredictState", ConfigWhole),
      action_execution_start("exec1", "update_user", None),
      action_execution_args("exec1", ChunkOpen),
      NodeFinished("node_a", StateCount)>>

ScriptTwoNodes ==
    <<meta_event("PredictState", ConfigName),
      action_execution_start("exec1", "update_user", None),
      action_execution_args("exec1", ChunkOpen),
      NodeFinished("node_a", StateCount),
      meta_event("PredictState", ConfigWhole),
      action_execution_start("exec2", "update_user", None),
      action_execution_args("exec2", ChunkNull)>>

ScriptNoConfig ==
    <<meta_event("PredictState", ConfigName),
      action_execution_start("exec1", "update_user", None),
      action_execution_args("exec1", ChunkOpen),
      NodeFinished("node_a", StateCount),
      action_execution_start("exec2", "update_user", None),
      action_execution_args("exec2", ChunkOpen)>>

ScriptArray ==
    <<meta_event("PredictState", ConfigName),
      action_execution_start("exec1", "update_user", None),
      action_execution_args("exec1", ChunkArray),
      action_execution_end("exec1"),
      RunFinished(StateEmpty)>>

ScriptError == <<RunError(EngineError)>>

\* two events the run loop has no branch for, then one it forwards
ScriptUnknown ==
    <<UnknownEvent, meta_event("LangGraphInterruptEvent", "resume"),
      text_message_start("m2", None), RunFinished(StateEmpty)>>

\* an exit request, other events, and the request withdrawn
ScriptExit ==
    <<meta_event("Exit", TRUE), text_message_start("m1", None),
      NodeFinished("node_a", StateCount), meta_event("Exit", FALSE),
      RunFinished(StateEmpty)>>

\* two tool calls in one node, the second under a new configuration
ScriptReconfigure ==
    <<NodeStarted("node_a", StateBob), meta_event("PredictState", ConfigName),
      action_execution_start("exec1", "update_user", None),
      action_execution_args("exec1", DocAlice),
      meta_event("PredictState", ConfigSearch),
      action_execution_start("exec2", "search", None),
      action_execution_args("exec2", ChunkOpen),
      NodeFinished("node_a", StateBob)>>

MetaScripts == {ScriptExit, ScriptReconfigure}

Scripts ==
    { <<>>, ScriptText, ScriptPredict, ScriptWhole, ScriptTwoNodes, ScriptNoConfig,
      ScriptArray, ScriptError, ScriptUnknown }

\* a producer that streams the arguments of two tool calls: doc in two chunks
\* cut at n for update_user, then doc2 in one chunk for tool2
PredictScript(cfg, doc, n, tool2, doc2) ==
    <<RunStarted(StateBob), meta_event("PredictState", cfg),
      action_execution_start("exec1", "update_user", None),
      action_execution_args("exec1", Take(doc, n)),
      action_execution_args("exec1", Drop(doc, n)),
      action_execution_start("exec2", tool2, None),
      action_execution_args("exec2", doc2),
      action_execution_end("exec2"),
      NodeFinished("node_a", StateBob), NodeStarted("node_b", StateBob),
      RunFinished(StateBob)>>

PredictScripts ==
    { PredictScript(cfg[1], doc, n, tool2, doc2) :
          cfg \in {<<c>> : c \in Configs},
          doc \in ValidDocs, n \in 0..16,
          tool2 \in {"update_user", "search"},
          doc2 \in {DocNull, DocOther, DocArray, Garbage} }

(***************************************************************************)
(* The state.  Two runs exist; only the first has a script.                 *)
(***************************************************************************)
Runs == {"r1", "r2"}

VARIABLES
    queue,       \* local_queue of each run
    execution,   \* the CopilotKitRunExecution of each run
    cpc,         \* where the generator copilotkit_run of each run stands
    task,        \* the producer task of each run
    output,      \* the texts each run has yielded: each a sequence of lines
    dequeued,    \* the events each run has taken from its queue
    result,      \* how the iteration of each run ended for its caller
    script,      \* the events each producer still has to publish first
    free,        \* the free steps taken by each producer and by its task
    callerCtx,   \* _CONTEXT_QUEUE, _CONTEXT_EXECUTION in the callers' context
    taskCtx,     \* the same in the context each producer task was created with
    childCtx,    \* the same in the context of a task the producer created
    token,       \* token_queue, token_execution of each run
    loop,        \* the event loop: its ready callbacks and where its tasks stand
    call         \* one call of a library function: its arguments and its outcome

vars == <<queue, execution, cpc, task, output, dequeued, result, script, free,
          callerCtx, taskCtx, childCtx, token, loop, call>>

NoBinding == [queue |-> None, execution |-> None]

\* no library function is being called
NoCall == [fn |-> None]

\* the execution the caller hands to copilotkit_run
NewExecution(r) ==
    [thread_id |-> IF r = "r1" THEN "thread_1" ELSE "thread_2",
     agent_name |-> "assistant",
     run_id |-> IF r = "r1" THEN "run_1" ELSE "run_2",
     should_exit |-> FALSE,
     node_name |-> "",
     is_finished |-> FALSE,
     predict_state_configuration |-> <<>>,
     predicted_state |-> <<>>,
     argument_buffer |-> <<>>,
     current_tool_call |-> None,
     state |-> StateEmpty]

\* the tasks the event loop schedules for one run: the task that drives the
\* generator, the task of fn, and a task fn creates
Producers == {"fn", "child"}

Callback(kind, t) == [kind |-> kind, task |-> t]

\* no callback is ready and no task has started
LoopIdle ==
    [ready |-> <<>>,
     pc |-> [p \in Producers |-> "unstarted"],
     getter |-> FALSE,
     putters |-> <<>>,
     call |-> [p \in Producers |-> <<>>],
     calls |-> [p \in Producers |-> 0],
     late |-> FALSE,
     urgent |-> FALSE]

\* the runs before anything has started, the producer of r1 holding a script
InitRuns(scripts) ==
    /\ queue = [r \in Runs |-> <<>>]
    /\ execution = [r \in Runs |-> NewExecution(r)]
    /\ cpc = [r \in Runs |-> "unstarted"]
    /\ task = [r \in Runs |-> "unstarted"]
    /\ output = [r \in Runs |-> <<>>]
    /\ dequeued = [r \in Runs |-> <<>>]
    /\ result = [r \in Runs |-> None]
    /\ \E s \in scripts : script = [r \in Runs |-> IF r = "r1" THEN s ELSE <<>>]
    /\ free = [r \in Runs |-> [fn |-> 0, child |-> 0]]
    /\ callerCtx = NoBinding
    /\ taskCtx = [r \in Runs |-> NoBinding]
    /\ childCtx = [r \in Runs |-> NoBinding]
    /\ token = [r \in Runs |-> NoBinding]
    /\ loop = LoopIdle

\* the same, no library function being called
InitWith(scripts) == InitRuns(scripts) /\ call = NoCall

Init == InitWith(Scripts)

InitTwo == InitWith({<<>>})

(***************************************************************************)
(* runloop.py: the context variables.                                      *)
(***************************************************************************)
\* set_context_queue(local_queue); set_context_execution(execution)
set_context(r) == [queue |-> r, execution |-> r]

\* a variant of reset_context: the bindings are cleared, not put back
reset_context_clear(r) == NoBinding

\* reset_context_queue(token_queue); reset_context_execution(token_execution)
reset_context(r) == token[r]

\* a variant of get_context_queue: one binding for every task, as a module
\* global would be
get_context_queue_global(ctx) == callerCtx.queue

\* get_context_queue() in a task whose context is ctx (None: RuntimeError)
get_context_queue(ctx) == ctx.queue

\* asyncio.create_task gives the new task a copy of the current context
copy_context(ctx) == ctx

(***************************************************************************)
(* runloop.py: copilotkit_run, the consumer.  cpc is "unstarted", "get"    *)
(* (await local_queue.get()), "yielded" (suspended in yield json_lines),   *)
(* "yield_control", "await_task", and at the end "done", "raised" or       *)
(* "closed".                                                               *)
(***************************************************************************)
\* a variant of LoopNext: the loop never breaks
LoopNextNoBreak(ex) == "yield_control"

\* a variant of LoopNext: should_exit ends the loop as well
LoopNextExitBreaks(ex) ==
    IF ex.is_finished \/ ex.should_exit THEN "await_task" ELSE "yield_control"

\* if execution["is_finished"]: break  ... else await yield_control()
LoopNext(ex) == IF ex.is_finished THEN "await_task" ELSE "yield_control"

\* the first __anext__: bind the context, create the task, wait on the queue
Start(r) ==
    /\ UNCHANGED <<loop, call>>
    /\ cpc[r] = "unstarted"
    /\ token' = [token EXCEPT ![r] = callerCtx]
    /\ callerCtx' = set_context(r)
    /\ taskCtx' = [taskCtx EXCEPT ![r] = copy_context(set_context(r))]
    /\ task' = [task EXCEPT ![r] = "running"]
    /\ cpc' = [cpc EXCEPT ![r] = "get"]
    /\ UNCHANGED <<queue, execution, output, dequeued, result, script, free,
                   childCtx>>

\* one iteration: take an event, handle it, yield its lines if any
Receive(r) ==
    /\ UNCHANGED <<loop, call>>
    /\ cpc[r] = "get"
    /\ queue[r] # <<>>
    /\ LET event == Head(queue[r])
           h == handle_runtime_event(event, execution[r])
       IN  /\ queue' = [queue EXCEPT ![r] = Tail(@)]
           /\ dequeued' = [dequeued EXCEPT ![r] = Append(@, event)]
           /\ execution' = [execution EXCEPT ![r] = h.execution]
           /\ IF h.raised # None
                  THEN /\ cpc' = [cpc EXCEPT ![r] = "raised"]
                       /\ result' = [result EXCEPT ![r] = h.raised]
                       /\ callerCtx' = reset_context(r)
                       /\ UNCHANGED output
              ELSE IF h.json_lines # <<>>
                  THEN /\ cpc' = [cpc EXCEPT ![r] = "yielded"]
                       /\ output' = [output EXCEPT ![r] = Append(@, h.json_lines)]
                       /\ UNCHANGED <<result, callerCtx>>
              ELSE /\ cpc' = [cpc EXCEPT ![r] = LoopNext(h.execution)]
                   /\ UNCHANGED <<output, result, callerCtx>>
    /\ UNCHANGED <<task, script, free, taskCtx, childCtx, token>>

\* the caller asks for the next text: the generator goes on after its yield
Pull(r) ==
    /\ UNCHANGED <<loop, call>>
    /\ cpc[r] = "yielded"
    /\ cpc' = [cpc EXCEPT ![r] = LoopNext(execution[r])]
    /\ UNCHANGED <<queue, execution, task, output, dequeued, result, script, free,
                   callerCtx, taskCtx, childCtx, token>>

\* the caller closes the generator (aclose): GeneratorExit at the yield, then
\* the finally block
Close(r) ==
    /\ UNCHANGED <<loop, call>>
    /\ cpc[r] = "yielded"
    /\ cpc' = [cpc EXCEPT ![r] = "closed"]
    /\ result' = [result EXCEPT ![r] = "GeneratorExit"]
    /\ callerCtx' = reset_context(r)
    /\ UNCHANGED <<queue, execution, task, output, dequeued, script, free,
                   taskCtx, childCtx, token>>

\* await yield_control() returns: back to the top of the loop
Resume(r) ==
    /\ UNCHANGED <<loop, call>>
    /\ cpc[r] = "yield_control"
    /\ cpc' = [cpc EXCEPT ![r] = "get"]
    /\ UNCHANGED <<queue, execution, task, output, dequeued, result, script, free,
                   callerCtx, taskCtx, childCtx, token>>

\* await task once the task has ended, then the finally block
AwaitTask(r) ==
    /\ UNCHANGED <<loop, call>>
    /\ cpc[r] = "await_task"
    /\ task[r] \in {"returned", "raised"}
    /\ cpc' = [cpc EXCEPT ![r] = IF task[r] = "raised" THEN "raised" ELSE "done"]
    /\ result' = [result EXCEPT
                     ![r] = IF task[r] = "raised" THEN ProducerError
                            ELSE "StopAsyncIteration"]
    /\ callerCtx' = reset_context(r)
    /\ UNCHANGED <<queue, execution, task, output, dequeued, script, free,
                   taskCtx, childCtx, token>>

(***************************************************************************)
(* The producer task fn(): it publishes with queue_put, then returns or    *)
(* raises.  queue_put yields control before and after its puts; the puts   *)
(* of one call are one step.                                               *)
(***************************************************************************)
\* where a task stands once its puts are done: a task that was in the leading
\* yield of queue_put is back in its own code
AfterPut(t) == IF t = "stray_yield" THEN "stray" ELSE t

\* a variant of queue_put: with no queue bound the call returns quietly
queue_put_quiet(r, ctx, event) ==
    LET q == get_context_queue(ctx)
    IN  IF q = None
            THEN /\ task' = [task EXCEPT ![r] = AfterPut(@)]
                 /\ UNCHANGED queue
            ELSE /\ queue' = [queue EXCEPT ![q] = Append(@, event)]
                 /\ task' = [task EXCEPT ![r] = AfterPut(@)]

\* queue_put(event) in a task r whose context is ctx; with no queue bound,
\* get_context_queue raises RuntimeError in the task
queue_put(r, ctx, event) ==
    LET q == get_context_queue(ctx)
    IN  IF q = None
            THEN /\ task' = [task EXCEPT ![r] = "raised"]
                 /\ UNCHANGED queue
            ELSE /\ queue' = [queue EXCEPT ![q] = Append(@, event)]
                 /\ task' = [task EXCEPT ![r] = AfterPut(@)]

\* the queue bound of the model
CanPut(ctx) ==
    IF get_context_queue(ctx) = None THEN TRUE
    ELSE Len(queue[get_context_queue(ctx)]) < MaxQueue

PublishScript(r) ==
    /\ UNCHANGED <<loop, call>>
    /\ task[r] = "running"
    /\ script[r] # <<>>
    /\ CanPut(taskCtx[r])
    /\ queue_put(r, taskCtx[r], Head(script[r]))
    /\ script' = [script EXCEPT ![r] = Tail(@)]
    /\ UNCHANGED <<execution, cpc, output, dequeued, result, free, callerCtx,
                   taskCtx, childCtx, token>>

\* a free step: any event of the feed, at any point of the script
PublishFree(r, feed, max) ==
    /\ UNCHANGED <<loop, call>>
    /\ task[r] = "running"
    /\ CanPut(taskCtx[r])
    /\ free[r].fn + free[r].child < max
    /\ \E i \in 1..Len(feed) : queue_put(r, taskCtx[r], feed[i])
    /\ free' = [free EXCEPT ![r].fn = @ + 1]
    /\ UNCHANGED <<execution, cpc, output, dequeued, result, script, callerCtx,
                   taskCtx, childCtx, token>>

\* the producer creates a task of its own: asyncio.create_task inside fn()
Spawn(r) ==
    /\ UNCHANGED <<loop, call>>
    /\ task[r] = "running"
    /\ childCtx[r] = NoBinding
    /\ childCtx' = [childCtx EXCEPT ![r] = copy_context(taskCtx[r])]
    /\ UNCHANGED <<queue, execution, cpc, task, output, dequeued, result, script,
                   free, callerCtx, taskCtx, token>>

\* that task publishes (a RuntimeError in it does not end the producer)
ChildPublish(r, feed, max) ==
    /\ UNCHANGED <<loop, call>>
    /\ childCtx[r] # NoBinding
    /\ get_context_queue(childCtx[r]) # None
    /\ CanPut(childCtx[r])
    /\ free[r].fn + free[r].child < max
    /\ \E i \in 1..Len(feed) : queue_put(r, childCtx[r], feed[i])
    /\ free' = [free EXCEPT ![r].child = @ + 1]
    /\ UNCHANGED <<execution, cpc, output, dequeued, result, script, callerCtx,
                   taskCtx, childCtx, token>>

ProducerReturn(r) ==
    /\ UNCHANGED <<loop, call>>
    /\ task[r] = "running"
    /\ script[r] = <<>>
    /\ task' = [task EXCEPT ![r] = "returned"]
    /\ UNCHANGED <<queue, execution, cpc, output, dequeued, result, script, free,
                   callerCtx, taskCtx, childCtx, token>>

ProducerRaise(r) ==
    /\ UNCHANGED <<loop, call>>
    /\ task[r] = "running"
    /\ script[r] = <<>>
    /\ task' = [task EXCEPT ![r] = "raised"]
    /\ UNCHANGED <<queue, execution, cpc, output, dequeued, result, script, free,
                   callerCtx, taskCtx, childCtx, token>>

\* a task that copilotkit_run did not create is created from the calling
\* context, with a copy of it
StraySpawn(r) ==
    /\ UNCHANGED <<loop, call>>
    /\ task[r] = "unstarted"
    /\ cpc[r] = "unstarted"
    /\ task' = [task EXCEPT ![r] = "stray"]
    /\ taskCtx' = [taskCtx EXCEPT ![r] = copy_context(callerCtx)]
    /\ UNCHANGED <<queue, execution, cpc, output, dequeued, result, script, free,
                   callerCtx, childCtx, token>>

\* that task calls queue_put: with priority it goes straight to its puts,
\* without it yields control first
StrayCall(r, priority, feed, max) ==
    /\ UNCHANGED <<loop, call>>
    /\ task[r] = "stray"
    /\ free[r].fn < max
    /\ CanPut(taskCtx[r])
    /\ IF priority
           THEN /\ \E i \in 1..Len(feed) : queue_put(r, taskCtx[r], feed[i])
                /\ free' = [free EXCEPT ![r].fn = @ + 1]
           ELSE /\ task' = [task EXCEPT ![r] = "stray_yield"]
                /\ UNCHANGED <<queue, free>>
    /\ UNCHANGED <<execution, cpc, output, dequeued, result, script, callerCtx,
                   taskCtx, childCtx, token>>

\* the leading yield_control returns: get_context_queue, then the puts
StrayResume(r, feed) ==
    /\ UNCHANGED <<loop, call>>
    /\ task[r] = "stray_yield"
    /\ CanPut(taskCtx[r])
    /\ \E i \in 1..Len(feed) : queue_put(r, taskCtx[r], feed[i])
    /\ free' = [free EXCEPT ![r].fn = @ + 1]
    /\ UNCHANGED <<execution, cpc, output, dequeued, result, script, callerCtx,
                   taskCtx, childCtx, token>>

(***************************************************************************)
(* Spec: one run, its producer publishing a script and then any events.    *)
(***************************************************************************)
Next ==
    \/ Start("r1")
    \/ Receive("r1")
    \/ Pull("r1")
    \/ Close("r1")
    \/ Resume("r1")
    \/ AwaitTask("r1")
    \/ PublishScript("r1")
    \/ PublishFree("r1", Feed, MaxFree)
    \/ ProducerReturn("r1")
    \/ ProducerRaise("r1")

Spec == Init /\ [][Next]_vars

(***************************************************************************)
(* SpecMeta: one run whose producer sends MetaEvents between its other     *)
(* events: an exit request and its withdrawal, a second configuration.     *)
(***************************************************************************)
InitMeta == InitWith(MetaScripts)

SpecMeta == InitMeta /\ [][Next]_vars

\* one run whose producer makes tool calls with streamed arguments, in one
\* node or two, or sends text only
ToolScripts == {ScriptText, ScriptPredict, ScriptTwoNodes}

InitTool == InitWith(ToolScripts)

SpecTool == InitTool /\ [][Next]_vars

(***************************************************************************)
(* SpecTwoRuns: two runs started from the same calling context, each with  *)
(* a producer that may create a task of its own.                           *)
(***************************************************************************)
NextTwo ==
    \E r \in Runs :
        \/ Start(r)
        \/ Receive(r)
        \/ Pull(r)
        \/ Close(r)
        \/ Resume(r)
        \/ AwaitTask(r)
        \/ PublishFree(r, FeedTwo(r), MaxFreeTwo)
        \/ Spawn(r)
        \/ ChildPublish(r, FeedTwo(r), MaxFreeTwo)
        \/ ProducerReturn(r)

SpecTwoRuns == InitTwo /\ [][NextTwo]_vars

(***************************************************************************)
(* SpecNested: two runs started from one calling context, overlapping in   *)
(* any order, each ending normally, by its producer's error or by the      *)
(* caller closing it.                                                      *)
(***************************************************************************)
NextNested ==
    \E r \in Runs :
        \/ Start(r)
        \/ Receive(r)
        \/ Pull(r)
        \/ Close(r)
        \/ Resume(r)
        \/ AwaitTask(r)
        \/ PublishFree(r, FeedTwo(r), MaxFreeTwo)
        \/ ProducerReturn(r)
        \/ ProducerRaise(r)

SpecNested == InitTwo /\ [][NextNested]_vars

(***************************************************************************)
(* SpecStray: one run, and a task outside it that calls queue_put.         *)
(***************************************************************************)
NextStray ==
    \/ Start("r1")
    \/ Receive("r1")
    \/ Pull("r1")
    \/ Close("r1")
    \/ Resume("r1")
    \/ AwaitTask("r1")
    \/ PublishFree("r1", FeedTwo("r1"), MaxFreeTwo)
    \/ ProducerReturn("r1")
    \/ StraySpawn("r2")
    \/ \E priority \in BOOLEAN : StrayCall("r2", priority, FeedTwo("r2"), MaxFreeTwo)
    \/ StrayResume("r2", FeedTwo("r2"))

SpecStray == InitTwo /\ [][NextStray]_vars

(***************************************************************************)
(* SpecSched: one run under the asyncio event loop.  The loop keeps a FIFO *)
(* of ready callbacks and runs the first; a task runs from where it was    *)
(* suspended to its next suspension in one step.  yield_control creates a  *)
(* future, has the loop call its set_result soon, and awaits it: the       *)
(* set_result callback runs first, and only then is the wake-up of the     *)
(* awaiting task put on the FIFO.  Queue.put wakes the task waiting in     *)
(* Queue.get; Queue.get suspends only on an empty queue.                   *)
(***************************************************************************)
\* the event of the n-th queue_put call of task p: one that is forwarded
\* ("text") or one that is not ("meta")
CallLabel == <<"1", "2", "3", "4">>

SchedEvent(p, n, kind) ==
    IF kind = "text" THEN text_message_content(p, CallLabel[n])
    ELSE meta_event("LangGraphInterruptEvent", <<p, CallLabel[n]>>)

\* await yield_control(): loop.call_soon(future.set_result, None); await future
yield_control_on(ready, t) == Append(ready, Callback("set_result", t))

\* a variant of TrailingYield: the task is not suspended, it runs on next
TrailingYieldSkipped(ready, t) == <<Callback("step", t)>> \o ready

\* the yield_control at the end of queue_put, after the puts
TrailingYield(ready, t) == yield_control_on(ready, t)

\* a variant of LeadingYield: every call yields first
LeadingYieldAlways(priority) == TRUE

\* if not priority: await yield_control()
LeadingYield(priority) == ~priority

\* a variant of Enqueue: an urgent event goes to the front
EnqueueUrgentFirst(q, event, priority) ==
    IF priority THEN <<event>> \o q ELSE Append(q, event)

\* a variant of Enqueue: the newest event goes to the front
EnqueueFront(q, event, priority) == <<event>> \o q

\* await q.put(event)
Enqueue(q, event, priority) == Append(q, event)

\* Queue.put wakes the getter, if one waits
WakeGetter(ready) ==
    IF loop.getter THEN Append(ready, Callback("step", "run")) ELSE ready

\* the state after the first __anext__ of copilotkit_run: the context is bound,
\* the task of fn is created and ready, the generator waits in local_queue.get()
InitSched ==
    /\ queue = [r \in Runs |-> <<>>]
    /\ execution = [r \in Runs |-> NewExecution(r)]
    /\ cpc = [r \in Runs |-> IF r = "r1" THEN "get" ELSE "unstarted"]
    /\ task = [r \in Runs |-> IF r = "r1" THEN "running" ELSE "unstarted"]
    /\ output = [r \in Runs |-> <<>>]
    /\ dequeued = [r \in Runs |-> <<>>]
    /\ result = [r \in Runs |-> None]
    /\ script = [r \in Runs |-> <<>>]
    /\ free = [r \in Runs |-> [fn |-> 0, child |-> 0]]
    /\ callerCtx = set_context("r1")
    /\ taskCtx = [r \in Runs |-> IF r = "r1" THEN copy_context(set_context("r1"))
                                 ELSE NoBinding]
    /\ childCtx = [r \in Runs |-> NoBinding]
    /\ token = [r \in Runs |-> NoBinding]
    /\ loop = [LoopIdle EXCEPT !.ready = <<Callback("step", "fn")>>,
                               !.pc["fn"] = "code",
                               !.getter = TRUE]
    /\ call = NoCall

IsNext(kind, t) == loop.ready # <<>> /\ Head(loop.ready) = Callback(kind, t)

\* the loop runs a set_result callback: the future is done, and the wake-up of
\* the task that awaits it is put on the FIFO
FutureSetResult ==
    /\ loop.ready # <<>>
    /\ Head(loop.ready).kind = "set_result"
    /\ loop' = [loop EXCEPT
                   !.ready = Append(Tail(@), Callback("step", Head(loop.ready).task))]
    /\ UNCHANGED call
    /\ UNCHANGED <<queue, execution, cpc, task, output, dequeued, result, script,
                   free, callerCtx, taskCtx, childCtx, token>>

\* task p runs its own code (at its start, or when a queue_put has returned)
\* and calls queue_put(event, priority=priority); fn may create the child
\* task before the call.  The step ends at the first yield_control of the call.
ProducerCalls(p, kind, priority, spawn) ==
    /\ IsNext("step", p)
    /\ loop.pc[p] \in {"code", "trailing_yield"}
    /\ loop.calls[p] < MaxCalls
    /\ spawn => (p = "fn" /\ loop.pc["child"] = "unstarted")
    /\ LET n == loop.calls[p] + 1
           event == SchedEvent(p, n, kind)
           created == IF spawn THEN Append(Tail(loop.ready), Callback("step", "child"))
                      ELSE Tail(loop.ready)
           started == [loop EXCEPT !.call[p] = [event |-> event, priority |-> priority],
                                   !.calls[p] = n,
                                   !.urgent = @ \/ priority,
                                   !.pc["child"] = IF spawn THEN "code" ELSE @]
       IN  IF LeadingYield(priority)
               THEN /\ loop' = [started EXCEPT
                                   !.pc[p] = "leading_yield",
                                   !.ready = yield_control_on(created, p)]
                    /\ UNCHANGED queue
               ELSE /\ queue' = [queue EXCEPT
                                    !["r1"] = Enqueue(@, event, priority)]
                    /\ loop' = [started EXCEPT
                                   !.pc[p] = "trailing_yield",
                                   !.getter = FALSE,
                                   !.ready = TrailingYield(WakeGetter(created), p)]
    /\ UNCHANGED call
    /\ UNCHANGED <<execution, cpc, task, output, dequeued, result, script, free,
                   callerCtx, taskCtx, childCtx, token>>

\* task p comes back from the leading yield of its call: the puts, then the
\* trailing yield_control
ProducerPuts(p) ==
    /\ IsNext("step", p)
    /\ loop.pc[p] = "leading_yield"
    /\ queue' = [queue EXCEPT
                    !["r1"] = Enqueue(@, loop.call[p].event, loop.call[p].priority)]
    /\ loop' = [loop EXCEPT
                   !.pc[p] = "trailing_yield",
                   !.getter = FALSE,
                   !.ready = TrailingYield(WakeGetter(Tail(loop.ready)), p)]
    /\ UNCHANGED call
    /\ UNCHANGED <<execution, cpc, task, output, dequeued, result, script, free,
                   callerCtx, taskCtx, childCtx, token>>

\* task p runs its own code to its end
ProducerReturns(p) ==
    /\ IsNext("step", p)
    /\ loop.pc[p] \in {"code", "trailing_yield"}
    /\ loop' = [loop EXCEPT
                   !.pc[p] = "returned",
                   !.ready = IF p = "fn" /\ cpc["r1"] = "await_task"
                                 THEN Append(Tail(@), Callback("step", "run"))
                             ELSE Tail(@)]
    /\ task' = [task EXCEPT !["r1"] = IF p = "fn" THEN "returned" ELSE @]
    /\ UNCHANGED call
    /\ UNCHANGED <<queue, execution, cpc, output, dequeued, result, script, free,
                   callerCtx, taskCtx, childCtx, token>>

\* local_queue = asyncio.Queue(): maxsize 0, the queue is unbounded
QueueMaxsize == 0

\* a variant of Full: the queue holds one event, as a Queue(maxsize=1) does
FullAtOne(q) == q # <<>>

\* Queue.full()
Full(q) == QueueMaxsize > 0 /\ Len(q) >= QueueMaxsize

\* Queue.get has taken an event: the first task waiting in Queue.put, if any,
\* is woken
AfterGet ==
    IF loop.putters = <<>> THEN loop
    ELSE [loop EXCEPT !.ready = Append(@, Callback("step", Head(loop.putters))),
                      !.putters = Tail(@)]

\* the end of an iteration of copilotkit_run: break, or await yield_control()
EndIteration(ex, l) ==
    /\ cpc' = [cpc EXCEPT !["r1"] = LoopNext(ex)]
    /\ loop' = [l EXCEPT
                   !.ready = IF LoopNext(ex) = "yield_control"
                                 THEN yield_control_on(Tail(@), "run")
                             ELSE Tail(@)]

\* the generator runs from the top of its loop: local_queue.get() suspends on
\* an empty queue; otherwise the event is handled, its lines are yielded to
\* the caller, who asks for the next text at once (pull) or awaits something
\* else first, and the iteration ends
ConsumerRuns(pull) ==
    /\ IsNext("step", "run")
    /\ cpc["r1"] \in {"get", "yield_control"}
    /\ IF queue["r1"] = <<>>
           THEN /\ cpc' = [cpc EXCEPT !["r1"] = "get"]
                /\ loop' = [loop EXCEPT !.getter = TRUE, !.ready = Tail(@)]
                /\ UNCHANGED <<queue, execution, output, dequeued>>
           ELSE LET event == Head(queue["r1"])
                    h == handle_runtime_event(event, execution["r1"])
                IN  /\ queue' = [queue EXCEPT !["r1"] = Tail(@)]
                    /\ dequeued' = [dequeued EXCEPT !["r1"] = Append(@, event)]
                    /\ execution' = [execution EXCEPT !["r1"] = h.execution]
                    /\ output' = [output EXCEPT
                                     !["r1"] = IF h.json_lines # <<>>
                                                   THEN Append(@, h.json_lines)
                                               ELSE @]
                    /\ IF h.json_lines # <<>> /\ ~pull
                           THEN /\ cpc' = [cpc EXCEPT !["r1"] = "yielded"]
                                /\ loop' = [AfterGet EXCEPT !.late = TRUE,
                                                            !.ready = Tail(@)]
                           ELSE EndIteration(h.execution, AfterGet)
    /\ UNCHANGED call
    /\ UNCHANGED <<task, result, script, free, callerCtx, taskCtx, childCtx, token>>

\* what the caller awaited is done: the caller's task is ready again
CallerWakes ==
    /\ cpc["r1"] = "yielded"
    /\ cpc' = [cpc EXCEPT !["r1"] = "pulling"]
    /\ loop' = [loop EXCEPT !.ready = Append(@, Callback("step", "run"))]
    /\ UNCHANGED call
    /\ UNCHANGED <<queue, execution, task, output, dequeued, result, script, free,
                   callerCtx, taskCtx, childCtx, token>>

\* the caller asks for the next text: the generator goes on after its yield
ConsumerPulled ==
    /\ IsNext("step", "run")
    /\ cpc["r1"] = "pulling"
    /\ EndIteration(execution["r1"], loop)
    /\ UNCHANGED call
    /\ UNCHANGED <<queue, execution, task, output, dequeued, result, script, free,
                   callerCtx, taskCtx, childCtx, token>>

NextSched ==
    \/ FutureSetResult
    \/ \E p \in Producers, kind \in {"text", "meta"}, priority \in BOOLEAN, spawn \in BOOLEAN : ProducerCalls(p, kind, priority, spawn)
    \/ \E p \in Producers : ProducerPuts(p)
    \/ \E p \in Producers : ProducerReturns(p)
    \/ \E pull \in BOOLEAN : ConsumerRuns(pull)
    \/ CallerWakes
    \/ ConsumerPulled

SpecSched == InitSched /\ [][NextSched]_vars

(***************************************************************************)
(* SpecPredict: one run whose producer streams tool arguments, every       *)
(* complete text cut at every position, under every configuration.         *)
(***************************************************************************)
InitPredict == InitWith(PredictScripts)

NextPredict ==
    \/ Start("r1")
    \/ Receive("r1")
    \/ Pull("r1")
    \/ Resume("r1")
    \/ AwaitTask("r1")
    \/ PublishScript("r1")
    \/ ProducerReturn("r1")

SpecPredict == InitPredict /\ [][NextPredict]_vars

(***************************************************************************)
(* Operators the properties use.                                           *)
(***************************************************************************)
Last(s) == s[Len(s)]

IsType(event, wire) == event.type = EnumMember(wire)

IsProtocolEvent(event) == EnumValue(event.type) \in ProtocolEventTypes

IsPredictConfig(event) ==
    IsType(event, "MetaEvent") /\ event.name = EnumMember("PredictState")

\* the lines of a sequence of yielded texts, in order
RECURSIVE Flatten(_)
Flatten(chunks) ==
    IF chunks = <<>> THEN <<>> ELSE Head(chunks) \o Flatten(Tail(chunks))

\* the protocol events among the events taken from the queue, as lines
RECURSIVE ProtocolLinesOf(_)
ProtocolLinesOf(events) ==
    IF events = <<>> THEN <<>>
    ELSE IF IsProtocolEvent(Head(events))
        THEN <<serialize_event(Head(events))>> \o ProtocolLinesOf(Tail(events))
    ELSE ProtocolLinesOf(Tail(events))

SameLine(a, b) == a.type = b.type /\ a = b

\* lines is expected, in order, with nothing else in between but snapshots
RECURSIVE ForwardedWithSnapshots(_, _)
ForwardedWithSnapshots(expected, lines) ==
    IF lines = <<>> THEN expected = <<>>
    ELSE \/ /\ expected # <<>>
            /\ SameLine(Head(expected), Head(lines))
            /\ ForwardedWithSnapshots(Tail(expected), Tail(lines))
         \/ /\ Head(lines).type = "AgentStateMessage"
            /\ ForwardedWithSnapshots(expected, Tail(lines))

\* the events taken from the queue since the last NodeFinished
RECURSIVE SinceNodeFinished(_)
SinceNodeFinished(events) ==
    IF events = <<>> THEN <<>>
    ELSE IF IsType(Last(events), "NodeFinished") THEN <<>>
    ELSE Append(SinceNodeFinished(SubSeq(events, 1, Len(events) - 1)), Last(events))

\* the args of the ToolArgs events events[i..j], concatenated
RECURSIVE ArgsText(_, _, _)
ArgsText(events, i, j) ==
    IF i > j THEN <<>>
    ELSE (IF IsType(events[i], "ActionExecutionArgs") THEN events[i].args ELSE <<>>)
             \o ArgsText(events, i + 1, j)

\* value is what the tolerant parse makes of argument chunks among events: the
\* whole parsed value or one member of the parsed object
PredictedFrom(value, events) ==
    \E i \in 1..Len(events) : \E j \in i..Len(events) :
        LET parsed == PartialJSONParse(ArgsText(events, i, j))
        IN  /\ IsType(events[j], "ActionExecutionArgs")
            /\ parsed.ok
            /\ \/ value = parsed.val
               \/ /\ parsed.val.kind = "object"
                  /\ \E k \in DOMAIN parsed.val.members : value = parsed.val.members[k]

(***************************************************************************)
(* C1.  Every protocol event the run takes from its queue is forwarded     *)
(* exactly once, the forwarded lines are in the order the events were      *)
(* taken, and the only other lines are snapshots.                          *)
(***************************************************************************)
C1_ForwardedOnceInOrder ==
    ForwardedWithSnapshots(ProtocolLinesOf(dequeued["r1"]), Flatten(output["r1"]))

\* the same, for the runs in which handling no event raised
C1_ForwardedUnlessHandlerRaised ==
    result["r1"] # "AttributeError" => C1_ForwardedOnceInOrder

(***************************************************************************)
(* C2.  Every yielded text holds one line, or two: a ToolStart or ToolArgs *)
(* line and then a snapshot; and when the predictor returns a snapshot for *)
(* the event taken, the text yielded in that step is the event's line      *)
(* followed by that snapshot's line.                                       *)
(***************************************************************************)
ChunkShape(chunk) ==
    \/ Len(chunk) = 1
    \/ /\ Len(chunk) = 2
       /\ chunk[1].type \in {"ActionExecutionStart", "ActionExecutionArgs"}
       /\ chunk[2].type = "AgentStateMessage"

SnapshotFollowsTrigger ==
    (dequeued'["r1"] # dequeued["r1"]
        /\ (IsType(Head(queue["r1"]), "ActionExecutionStart")
               \/ IsType(Head(queue["r1"]), "ActionExecutionArgs")))
    => LET event == Head(queue["r1"])
           p == predict_state(event, execution["r1"])
       IN  (p.raised = None /\ p.message # <<>>)
           => output'["r1"] = Append(output["r1"],
                                     <<serialize_event(event),
                                       serialize_event(p.message[1])>>)

C2_SnapshotAfterTrigger ==
    /\ [](\A i \in 1..Len(output["r1"]) : ChunkShape(output["r1"][i]))
    /\ [][SnapshotFollowsTrigger]_vars

C2_Witness ==
    /\ cpc["r1"] = "yielded"
    /\ Len(Last(output["r1"])) = 2
    /\ IsType(Last(dequeued["r1"]), "ActionExecutionArgs")
    /\ Len(output["r1"]) >= 2

(***************************************************************************)
(* C5.  Once RunFinished or RunError has been handled the run takes no     *)
(* further event and yields no further text, whatever is or comes in the   *)
(* queue.                                                                  *)
(***************************************************************************)
TerminatingHandled(r) ==
    /\ dequeued[r] # <<>>
    /\ IsType(Last(dequeued[r]), "RunFinished") \/ IsType(Last(dequeued[r]), "RunError")

C5_NothingAfterTermination ==
    [][TerminatingHandled("r1")
           => /\ output'["r1"] = output["r1"]
              /\ dequeued'["r1"] = dequeued["r1"]
              /\ cpc'["r1"] \in {"await_task", "done", "raised"}]_vars

C5_Witness ==
    /\ TerminatingHandled("r1")
    /\ cpc["r1"] = "done"
    /\ queue["r1"] # <<>>
    /\ output["r1"] # <<>>

(***************************************************************************)
(* C9.  Right after NodeFinished is handled the four prediction fields are *)
(* empty, whatever they held before, a second NodeFinished included.       *)
(***************************************************************************)
PredictionEmpty(ex) ==
    /\ ex.predict_state_configuration = <<>>
    /\ ex.predicted_state = <<>>
    /\ ex.argument_buffer = <<>>
    /\ ex.current_tool_call = None

C9_ResetAfterNodeFinished ==
    (dequeued["r1"] # <<>> /\ IsType(Last(dequeued["r1"]), "NodeFinished"))
        => PredictionEmpty(execution["r1"])

\* NodeFinished handled right after a ToolArgs that predicted
C9_Witness ==
    /\ Len(dequeued["r1"]) >= 4
    /\ IsType(Last(dequeued["r1"]), "NodeFinished")
    /\ IsType(dequeued["r1"][Len(dequeued["r1"]) - 1], "ActionExecutionArgs")
    /\ Len(output["r1"]) >= 2
    /\ Len(output["r1"][Len(output["r1"]) - 1]) = 2

(***************************************************************************)
(* C10.  No prediction crosses a node boundary: a text with a prediction   *)
(* snapshot is yielded only if a PredictState event was handled since the  *)
(* last NodeFinished, and every predicted value comes from argument chunks *)
(* taken since the last NodeFinished.                                      *)
(***************************************************************************)
C10_NoLeakAcrossNodes ==
    LET since == SinceNodeFinished(dequeued["r1"])
        ex == execution["r1"]
    IN  /\ (cpc["r1"] = "yielded" /\ Len(Last(output["r1"])) = 2)
               => \E i \in 1..Len(since) : IsPredictConfig(since[i])
        /\ \A k \in DOMAIN ex.predicted_state :
               PredictedFrom(ex.predicted_state[k], since)

\* a prediction in a second node, under a configuration set in that node
C10_Witness ==
    /\ cpc["r1"] = "yielded"
    /\ Len(Last(output["r1"])) = 2
    /\ \E i \in 1..Len(dequeued["r1"]) : IsType(dequeued["r1"][i], "NodeFinished")
    /\ \E i \in 1..(Len(dequeued["r1"]) - 1) :
           /\ IsType(dequeued["r1"][i], "ActionExecutionArgs")
           /\ \E j \in (i + 1)..Len(dequeued["r1"]) :
                  IsType(dequeued["r1"][j], "NodeFinished")



(***************************************************************************)
(* C3.  When the producer emits RunFinished, the run has not ended before  *)
(* its producer task has completed: whenever the output sequence of such a *)
(* run has ended (cleanly or with an error), the task has returned or      *)
(* raised.                                                                 *)
(***************************************************************************)
HasType(events, wire) == \E i \in 1..Len(events) : IsType(events[i], wire)

EmitsRunFinished(r) ==
    \/ HasType(script[r], "RunFinished")
    \/ HasType(queue[r], "RunFinished")
    \/ HasType(dequeued[r], "RunFinished")

Ended(r) == cpc[r] \in {"done", "raised"}

TaskCompleted(r) == task[r] \in {"returned", "raised"}

C3_EndsWithTaskCompleted ==
    (EmitsRunFinished("r1") /\ Ended("r1")) => TaskCompleted("r1")

\* the same, for the runs in which no handler raised
C3_EndsWithTaskCompletedUnlessHandlerRaised ==
    (EmitsRunFinished("r1") /\ Ended("r1") /\ result["r1"] # "AttributeError")
        => TaskCompleted("r1")

(***************************************************************************)
(* C4.  As claimed: when the producer emitted RunError(e) and the run has  *)
(* ended, it ended with the error e.                                       *)
(***************************************************************************)
RunErrorHandled(r) == dequeued[r] # <<>> /\ IsType(Last(dequeued[r]), "RunError")

ConsumerCanStep(r) ==
    \/ cpc[r] = "get" /\ queue[r] # <<>>
    \/ cpc[r] \in {"yielded", "yield_control"}
    \/ cpc[r] = "await_task" /\ TaskCompleted(r)

C6_ProducerErrorPropagates ==
    task["r1"] = "raised" =>
        \/ ConsumerCanStep("r1")
        \/ cpc["r1"] \in {"idle", "closed"}
        \/ result["r1"] = ProducerError

(***************************************************************************)
(* C7.  On every path by which the run stops (terminating event, error in  *)
(* a handler, the caller closing the generator) the producer task has      *)
(* completed: it is never left running behind a stopped run.               *)
(***************************************************************************)
Stopped(r) == cpc[r] \in {"done", "raised", "closed"}

C7_TaskNeverAbandoned == Stopped("r1") => TaskCompleted("r1")

(***************************************************************************)
(* C8.  Two concurrent runs are isolated: every event in a run's queue, or *)
(* taken from it, was published by that run's producer or by a task the    *)
(* producer created; every line a run outputs comes from its own events    *)
(* and its own execution state; and a run's execution state and output     *)
(* change only in the step in which that run takes one of its own events   *)
(* from its own queue.                                                     *)
(***************************************************************************)
OwnEvent(r, event) == \E i \in 1..Len(FeedTwo(r)) : event = FeedTwo(r)[i]

OwnLine(r, line) ==
    IF line.type = "AgentStateMessage"
        THEN /\ line.threadId = NewExecution(r).thread_id
             /\ line.runId = NewExecution(r).run_id
             /\ line.nodeName = r
             /\ json_loads(line.state) = _filter_state(StateOf(r))
    ELSE \E i \in 1..Len(FeedTwo(r)) :
             /\ IsProtocolEvent(FeedTwo(r)[i])
             /\ line = serialize_event(FeedTwo(r)[i])

OwnExecution(r) ==
    /\ execution[r].thread_id = NewExecution(r).thread_id
    /\ execution[r].run_id = NewExecution(r).run_id
    /\ execution[r].node_name \in {"", r}
    /\ execution[r].state \in {StateEmpty, StateOf(r)}

RunsIsolatedNow ==
    \A r \in Runs :
        /\ \A i \in 1..Len(queue[r]) : OwnEvent(r, queue[r][i])
        /\ \A i \in 1..Len(dequeued[r]) : OwnEvent(r, dequeued[r][i])
        /\ \A i \in 1..Len(Flatten(output[r])) : OwnLine(r, Flatten(output[r])[i])
        /\ OwnExecution(r)

HandlingIsLocal ==
    \A r \in Runs :
        /\ (execution'[r] # execution[r] \/ output'[r] # output[r]) =>
               /\ queue[r] # <<>>
               /\ OwnEvent(r, Head(queue[r]))
               /\ dequeued'[r] = Append(dequeued[r], Head(queue[r]))
        /\ dequeued'[r] # dequeued[r] =>
               \A s \in Runs \ {r} :
                   /\ execution'[s] = execution[s]
                   /\ output'[s] = output[s]
                   /\ dequeued'[s] = dequeued[s]

C8_RunsIsolated == []RunsIsolatedNow /\ [][HandlingIsLocal]_vars

\* both runs in flight at once, each having output a line of its own, one of
\* them fed by a task its producer created
C8_Witness ==
    /\ task["r1"] = "running" /\ task["r2"] = "running"
    /\ output["r1"] # <<>> /\ output["r2"] # <<>>
    /\ free["r1"].child = 1 /\ free["r1"].fn = 0
    /\ execution["r1"].node_name = "r1"
    /\ cpc["r2"] = "yielded"

(***************************************************************************)
(* C11.  A ToolArgs event whose argument buffer is a strict prefix of      *)
(* valid JSON, for a tool the configuration names, never raises: the run   *)
(* is not ended by handling it.                                            *)
(***************************************************************************)
IsStrictPrefix(b) == \E d \in ValidDocs : Len(b) < Len(d) /\ b = Take(d, Len(b))

\* the last event run r took is a ToolArgs for a configured tool
PredictedArgs(r) ==
    /\ dequeued[r] # <<>>
    /\ IsType(Last(dequeued[r]), "ActionExecutionArgs")
    /\ \E i \in 1..Len(dequeued[r]) :
           /\ IsPredictConfig(dequeued[r][i])
           /\ execution[r].current_tool_call \in ToolNames(dequeued[r][i].value)

C11_PrefixNeverRaises ==
    (PredictedArgs("r1") /\ IsStrictPrefix(execution["r1"].argument_buffer))
        => cpc["r1"] # "raised"

\* the same, for the prefixes from which the tolerant parse recovers an object
C11_ObjectPrefixNeverRaises ==
    (/\ PredictedArgs("r1")
     /\ IsStrictPrefix(execution["r1"].argument_buffer)
     /\ PartialJSONParse(execution["r1"].argument_buffer).val.kind = "object")
        => cpc["r1"] # "raised"

(***************************************************************************)
(* C12.  A ToolArgs event that yields no update (the current tool is in no *)
(* entry of the configuration, or the tolerant parse fails, or the parse   *)
(* gives an object in which every configured argument is absent or null)   *)
(* outputs its own line and no snapshot, leaves predicted_state as it was, *)
(* and does not end the run: the consumer goes on to the next event.       *)
(***************************************************************************)
\* run r takes the event at the head of its queue in this step
Takes(r) == queue[r] # <<>> /\ dequeued'[r] = Append(dequeued[r], Head(queue[r]))

ArgumentMissing(entry, parsed) ==
    /\ "tool_argument" \in DOMAIN entry
    /\ parsed.kind = "object"
    /\ \/ entry.tool_argument \notin DOMAIN parsed.members
       \/ parsed.members[entry.tool_argument].kind = "null"

YieldsNoUpdate(ex, event) ==
    LET cfg == ex.predict_state_configuration
        parsed == PartialJSONParse(ex.argument_buffer \o event.args)
    IN  \/ \A i \in 1..Len(cfg) : cfg[i].tool_name # ex.current_tool_call
        \/ ~parsed.ok
        \/ \A i \in 1..Len(cfg) :
               cfg[i].tool_name = ex.current_tool_call
                   => ArgumentMissing(cfg[i], parsed.val)

NoUpdateIsSilent ==
    (/\ Takes("r1")
     /\ IsType(Head(queue["r1"]), "ActionExecutionArgs")
     /\ YieldsNoUpdate(execution["r1"], Head(queue["r1"])))
        => /\ output'["r1"] =
                  Append(output["r1"], <<serialize_event(Head(queue["r1"]))>>)
           /\ execution'["r1"].predicted_state = execution["r1"].predicted_state
           /\ ~execution'["r1"].is_finished
           /\ cpc'["r1"] = "yielded"
           /\ result'["r1"] = None

C12_NoUpdateNoSnapshot == [][NoUpdateIsSilent]_vars

\* "Alice" was predicted, then a ToolArgs whose text cannot be parsed was taken
\* and forwarded alone, and the event after it was forwarded too
C12_Witness ==
    /\ Len(dequeued["r1"]) = 8
    /\ dequeued["r1"][7] = action_execution_args("exec2", Garbage)
    /\ execution["r1"].current_tool_call = "update_user"
    /\ execution["r1"].predict_state_configuration = ConfigName
    /\ execution["r1"].predicted_state = [name |-> JString(<<"A", "l", "i", "c", "e">>)]
    /\ Len(output["r1"]) >= 2
    /\ output["r1"][Len(output["r1"]) - 1] =
           <<serialize_event(action_execution_args("exec2", Garbage))>>
    /\ Last(output["r1"]) = <<serialize_event(action_execution_end("exec2"))>>

(***************************************************************************)
(* C13.  Scenario 2 as claimed: under the configuration name <- argument   *)
(* name of update_user, after ToolStart and ToolArgs '{"name": "Al' no     *)
(* snapshot has been forwarded; after ToolArgs 'ice"}' exactly one has,    *)
(* and its decoded state has name = "Alice".                               *)
(***************************************************************************)
Scenario2(r) ==
    /\ Len(dequeued[r]) \in {4, 5}
    /\ dequeued[r][2] = meta_event("PredictState", ConfigName)
    /\ dequeued[r][3] = action_execution_start("exec1", "update_user", None)
    /\ dequeued[r][4] = action_execution_args("exec1", ChunkOpen)
    /\ Len(dequeued[r]) = 5 => dequeued[r][5] = action_execution_args("exec1", ChunkClose)

\* the snapshots among the lines run r has output, in order
Snapshots(r) ==
    SelectSeq(Flatten(output[r]), LAMBDA line : line.type = "AgentStateMessage")

NameIn(line) == json_loads(line.state)["name"]

NameAl == JString(<<"A", "l">>)
NameAlice == JString(<<"A", "l", "i", "c", "e">>)

C13_OneSnapshotAlice ==
    Scenario2("r1") =>
        /\ Len(dequeued["r1"]) = 4 => Snapshots("r1") = <<>>
        /\ Len(dequeued["r1"]) = 5 =>
               /\ Len(Snapshots("r1")) = 1
               /\ NameIn(Snapshots("r1")[1]) = NameAlice

(***************************************************************************)
(* C13, as the code has it.  The tolerant parse recovers "Al" from the     *)
(* first ToolArgs, so a snapshot with name = "Al" is forwarded right after *)
(* it; after the second ToolArgs a second snapshot is forwarded with       *)
(* name = "Alice".  Two snapshots in all, the last value exactly "Alice".  *)
(***************************************************************************)
C13_SnapshotPerChunk ==
    Scenario2("r1") =>
        /\ Len(dequeued["r1"]) = 4 =>
               /\ Len(Snapshots("r1")) = 1
               /\ NameIn(Snapshots("r1")[1]) = NameAl
               /\ Last(output["r1"]) =
                      <<serialize_event(dequeued["r1"][4]), Snapshots("r1")[1]>>
        /\ Len(dequeued["r1"]) = 5 =>
               /\ Len(Snapshots("r1")) = 2
               /\ NameIn(Snapshots("r1")[1]) = NameAl
               /\ NameIn(Snapshots("r1")[2]) = NameAlice
               /\ Last(output["r1"]) =
                      <<serialize_event(dequeued["r1"][5]), Snapshots("r1")[2]>>

C13_Witness ==
    /\ Scenario2("r1")
    /\ Len(dequeued["r1"]) = 5
    /\ cpc["r1"] = "yielded"
    /\ NameIn(Last(Last(output["r1"]))) = NameAlice

(***************************************************************************)
(* C14.  The per-id lifecycle of a trace of lines: for every messageId and *)
(* every executionId one Start, then Content/Args, then one End, with no   *)
(* two ids of a family open at once.  As claimed: when the run has ended   *)
(* and the events enqueued before the terminating event keep this          *)
(* lifecycle, the lines the run has output keep it too.                    *)
(***************************************************************************)
RECURSIVE LifecycleFrom(_, _, _, _)
LifecycleFrom(lines, openMessage, openExecution, closed) ==
    IF lines = <<>> THEN openMessage = None /\ openExecution = None
    ELSE
        LET line == Head(lines)
            rest == Tail(lines)
        IN  IF line.type = "TextMessageStart"
                THEN /\ openMessage = None
                     /\ line.messageId \notin closed
                     /\ LifecycleFrom(rest, line.messageId, openExecution, closed)
            ELSE IF line.type = "TextMessageContent"
                THEN /\ openMessage = line.messageId
                     /\ LifecycleFrom(rest, openMessage, openExecution, closed)
            ELSE IF line.type = "TextMessageEnd"
                THEN /\ openMessage = line.messageId
                     /\ LifecycleFrom(rest, None, openExecution,
                                      closed \cup {line.messageId})
            ELSE IF line.type = "ActionExecutionStart"
                THEN /\ openExecution = None
                     /\ line.actionExecutionId \notin closed
                     /\ LifecycleFrom(rest, openMessage, line.actionExecutionId, closed)
            ELSE IF line.type = "ActionExecutionArgs"
                THEN /\ openExecution = line.actionExecutionId
                     /\ LifecycleFrom(rest, openMessage, openExecution, closed)
            ELSE IF line.type = "ActionExecutionEnd"
                THEN /\ openExecution = line.actionExecutionId
                     /\ LifecycleFrom(rest, openMessage, None,
                                      closed \cup {line.actionExecutionId})
            ELSE LifecycleFrom(rest, openMessage, openExecution, closed)

LifecycleOK(lines) == LifecycleFrom(lines, None, None, {})

IsTerminating(event) == IsType(event, "RunFinished") \/ IsType(event, "RunError")

\* the events of a sequence before its first terminating event
RECURSIVE BeforeTerminating(_)
BeforeTerminating(events) ==
    IF events = <<>> \/ IsTerminating(Head(events)) THEN <<>>
    ELSE <<Head(events)>> \o BeforeTerminating(Tail(events))

\* the producer of run r has enqueued a terminating event
TerminatingEnqueued(r) ==
    \E i \in 1..Len(dequeued[r] \o queue[r]) : IsTerminating((dequeued[r] \o queue[r])[i])

FeedLines(r) == ProtocolLinesOf(BeforeTerminating(dequeued[r] \o queue[r]))

C14_LifecyclePreserved ==
    (Ended("r1") /\ TerminatingEnqueued("r1") /\ LifecycleOK(FeedLines("r1")))
        => LifecycleOK(Flatten(output["r1"]))

\* for the runs in which no handler raised: the output keeps the lifecycle
\* exactly when the feed does
C14_LifecycleAsFedUnlessHandlerRaised ==
    (Ended("r1") /\ TerminatingEnqueued("r1") /\ result["r1"] # "AttributeError")
        => (LifecycleOK(FeedLines("r1")) <=> LifecycleOK(Flatten(output["r1"])))

(***************************************************************************)
(* C15.  No line a run outputs has the type of a lifecycle event           *)
(* (RunStarted, RunFinished, RunError, NodeStarted, NodeFinished) or of a  *)
(* control event (MetaEvent): those events are consumed by the run loop.   *)
(***************************************************************************)
InternalTypes ==
    {"RunStarted", "RunFinished", "RunError", "NodeStarted", "NodeFinished",
     "MetaEvent"}

C15_InternalEventsNotOutput ==
    \A i \in 1..Len(Flatten(output["r1"])) :
        Flatten(output["r1"])[i].type \notin InternalTypes

\* a run that has taken a control event, NodeStarted, NodeFinished and
\* RunFinished, and has output lines
C15_Witness ==
    /\ HasType(dequeued["r1"], "MetaEvent")
    /\ HasType(dequeued["r1"], "NodeStarted")
    /\ HasType(dequeued["r1"], "NodeFinished")
    /\ HasType(dequeued["r1"], "RunFinished")
    /\ Len(output["r1"]) >= 3
    /\ cpc["r1"] = "done"

(***************************************************************************)
(* C16.  Handling Control(Exit) sets should_exit to the event's value and  *)
(* does nothing else: no line is output, is_finished and the producer task *)
(* are left as they were, and the consumer goes on to the next event.  The *)
(* loop is left, and the producer task awaited, only after RunFinished or  *)
(* RunError has been handled.                                              *)
(***************************************************************************)
IsExit(event) == IsType(event, "MetaEvent") /\ event.name = EnumMember("Exit")

ExitOnlySignals ==
    (Takes("r1") /\ IsExit(Head(queue["r1"]))) =>
        /\ execution'["r1"] =
               [execution["r1"] EXCEPT !.should_exit = Head(queue["r1"]).value]
        /\ ~execution'["r1"].is_finished
        /\ output'["r1"] = output["r1"]
        /\ cpc'["r1"] = "yield_control"
        /\ task'["r1"] = task["r1"]
        /\ result'["r1"] = None

EndsOnlyAfterTerminating ==
    (cpc["r1"] \in {"await_task", "done"} \/ result["r1"] = ProducerError) =>
        /\ dequeued["r1"] # <<>>
        /\ IsTerminating(Last(dequeued["r1"]))

StrayPuts == free'["r2"].fn = free["r2"].fn + 1

\* the step leaves every channel as it was and ends the calling task with the
\* error
FailsLoudly == task'["r2"] = "raised" /\ queue' = queue

StrayUnbound == StrayPuts /\ get_context_queue(taskCtx["r2"]) = None

\* C17: a queue_put whose task has no channel bound raises in that task and
\* enqueues nothing on any channel, whether the call had priority (the puts come
\* at once) or not (they come after the leading yield); a task ends with the
\* error only that way
C17_UnboundPublishRaises ==
    /\ [](task["r2"] = "raised" => get_context_queue(taskCtx["r2"]) = None)
    /\ [][StrayUnbound => FailsLoudly]_vars

\* the outside task has raised while a run holds a channel with events on it,
\* all of them the run's own
C17_Witness ==
    /\ task["r2"] = "raised"
    /\ cpc["r1"] \in {"get", "yielded"}
    /\ queue["r1"] # <<>>
    /\ \A i \in 1..Len(queue["r1"]) : OwnEvent("r1", queue["r1"][i])

(***************************************************************************)
(* C18.  Whenever a run stops (its loop ended and the task returned, the   *)
(* task's error propagated, or the caller closed the generator) the queue  *)
(* and execution bound in the calling context are again the ones bound     *)
(* there just before that run started, whatever another run started from   *)
(* the same context did in between.                                        *)
(***************************************************************************)
Started(r) == cpc[r] # "unstarted"

\* run r binds in this step: what was bound before is what its tokens hold
TokenHoldsPrevious(r) == (~Started(r) /\ Started(r)') => token'[r] = callerCtx

\* run r stops in this step
Stops(r) == Started(r) /\ ~Stopped(r) /\ Stopped(r)'

RestoredOnStop ==
    \A r \in Runs :
        /\ TokenHoldsPrevious(r)
        /\ Started(r) => token'[r] = token[r]
        /\ Stops(r) => callerCtx' = token[r]

ArgumentPresent(entry, parsed) ==
    /\ parsed.kind = "object"
    /\ entry.tool_argument \in DOMAIN parsed.members
    /\ parsed.members[entry.tool_argument].kind # "null"

SameAt(key, before, after) ==
    IF key \in DOMAIN before
        THEN key \in DOMAIN after /\ after[key] = before[key]
    ELSE key \notin DOMAIN after

BecomesAt(key, after, value) == key \in DOMAIN after /\ after[key] = value

EntryFollowsParse(entry, tool, parsed, before, after) ==
    IF entry.tool_name # tool
        THEN SameAt(entry.key, before, after)
    ELSE IF "tool_argument" \in DOMAIN entry
        THEN IF ArgumentPresent(entry, parsed)
                THEN BecomesAt(entry.key, after, parsed.members[entry.tool_argument])
             ELSE SameAt(entry.key, before, after)
    ELSE BecomesAt(entry.key, after, parsed)

\* run r takes a ToolArgs event whose buffered text the tolerant parse accepts
TakesParsedArgs(r) ==
    /\ Takes(r)
    /\ IsType(Head(queue[r]), "ActionExecutionArgs")
    /\ PartialJSONParse(execution[r].argument_buffer \o Head(queue[r]).args).ok

EntriesFollowParse(r) ==
    LET ex == execution[r]
        cfg == ex.predict_state_configuration
        parsed == PartialJSONParse(ex.argument_buffer \o Head(queue[r]).args).val
    IN  \A i \in 1..Len(cfg) :
            EntryFollowsParse(cfg[i], ex.current_tool_call, parsed,
                              ex.predicted_state, execution'[r].predicted_state)

C19_EntriesFollowParse ==
    [][TakesParsedArgs("r1") => EntriesFollowParse("r1")]_vars

\* the same, for the events whose parsed value is an object
C19_EntriesFollowParsedObject ==
    [][(/\ TakesParsedArgs("r1")
        /\ PartialJSONParse(execution["r1"].argument_buffer
                            \o Head(queue["r1"]).args).val.kind = "object")
           => EntriesFollowParse("r1")]_vars

(***************************************************************************)
(* C20.  The state carried by a prediction snapshot (the snapshot output   *)
(* right after a ToolArgs line) is the JSON text of execution.state        *)
(* overlaid with predicted_state, the predicted value winning on a key of  *)
(* both, and the step leaves execution.state as it was.  As claimed: the   *)
(* whole overlay.                                                          *)
(***************************************************************************)
\* run r takes a ToolArgs event and outputs a snapshot after its line
EmitsPrediction(r) ==
    /\ Takes(r)
    /\ IsType(Head(queue[r]), "ActionExecutionArgs")
    /\ Len(output'[r]) = Len(output[r]) + 1
    /\ Len(Last(output'[r])) = 2
    /\ Last(output'[r])[2].type = "AgentStateMessage"

Overlay(state, predicted, excluded) ==
    [k \in ((DOMAIN state) \cup (DOMAIN predicted)) \ excluded |->
        IF k \in DOMAIN predicted THEN predicted[k] ELSE state[k]]

SnapshotCarries(r, excluded) ==
    /\ json_loads(Last(output'[r])[2].state) =
           Overlay(execution[r].state, execution'[r].predicted_state, excluded)
    /\ execution'[r].state = execution[r].state

C20_SnapshotIsOverlay ==
    [][EmitsPrediction("r1") => SnapshotCarries("r1", {})]_vars

(***************************************************************************)
(* C20, as the code has it: the overlay goes through _filter_state, so the *)
(* snapshot carries it without the top-level keys "messages" and "id".     *)
(***************************************************************************)
C20_SnapshotIsFilteredOverlay ==
    [][EmitsPrediction("r1") => SnapshotCarries("r1", {"messages", "id"})]_vars

\* a prediction snapshot has been output that carries the predicted name where
\* execution.state has another name, and execution.state still has its own
C20_Witness ==
    /\ output["r1"] # <<>>
    /\ IsType(Last(dequeued["r1"]), "ActionExecutionArgs")
    /\ Len(Last(output["r1"])) = 2
    /\ Last(output["r1"])[2].type = "AgentStateMessage"
    /\ NameIn(Last(output["r1"])[2]) = NameAlice
    /\ execution["r1"].state = StateBob
    /\ "messages" \in DOMAIN execution["r1"].state
    /\ "messages" \notin DOMAIN json_loads(Last(output["r1"])[2].state)

(***************************************************************************)
(* C21.  Every snapshot the run loop makes itself (for NodeStarted, for    *)
(* NodeFinished, for a prediction: each AgentStateMessage line output in a *)
(* step whose event is not itself an AgentStateMessage) carries a state    *)
(* whose decoded dict has neither the key "messages" nor the key "id",     *)
(* also when execution.state has both and predicted_state has "id".        *)
(***************************************************************************)
NoBookkeepingKeys(line) ==
    (DOMAIN json_loads(line.state)) \cap {"messages", "id"} = {}

SynthesizedAreFiltered ==
    (/\ Takes("r1")
     /\ ~IsType(Head(queue["r1"]), "AgentStateMessage")
     /\ Len(output'["r1"]) = Len(output["r1"]) + 1)
        => \A i \in 1..Len(Last(output'["r1"])) :
               Last(output'["r1"])[i].type = "AgentStateMessage"
                   => NoBookkeepingKeys(Last(output'["r1"])[i])

C21_SnapshotsNeverLeak == [][SynthesizedAreFiltered]_vars

\* "id" was predicted from the arguments while execution.state had "messages"
\* and "id"; a prediction snapshot, the NodeFinished snapshot and the
\* NodeStarted snapshot have all been output
C21_Witness ==
    /\ Len(dequeued["r1"]) >= 2
    /\ dequeued["r1"][2] = meta_event("PredictState", ConfigId)
    /\ IsType(Last(dequeued["r1"]), "NodeStarted")
    /\ execution["r1"].state = StateBob
    /\ Len(Snapshots("r1")) >= 3
    /\ \E i \in 1..Len(Snapshots("r1")) : Snapshots("r1")[i].active = FALSE
    /\ Last(Snapshots("r1")).nodeName = "node_b"

(***************************************************************************)
(* C22.  Handling a MetaEvent named PredictState replaces                  *)
(* predict_state_configuration by the event's value, whatever it held      *)
(* before, changes no other field of the execution state, outputs nothing  *)
(* and raises nothing.                                                     *)
(***************************************************************************)
ConfigOverwrites ==
    (Takes("r1") /\ IsPredictConfig(Head(queue["r1"])))
        => /\ execution'["r1"] =
                  [execution["r1"] EXCEPT
                      !.predict_state_configuration = Head(queue["r1"]).value]
           /\ output'["r1"] = output["r1"]
           /\ result'["r1"] = result["r1"]
           /\ cpc'["r1"] = "yield_control"

C22_ConfigOverwritten == [][ConfigOverwrites]_vars

\* a configuration for the key "name" was in force and had predicted a value;
\* a configuration for the key "draft" was then handled and is all that is left
C22_Witness ==
    /\ Len(dequeued["r1"]) >= 2
    /\ IsPredictConfig(Last(dequeued["r1"]))
    /\ Last(dequeued["r1"]).value = ConfigWhole
    /\ \E i \in 1..Len(dequeued["r1"]) :
           IsPredictConfig(dequeued["r1"][i]) /\ dequeued["r1"][i].value = ConfigName
    /\ execution["r1"].predicted_state # <<>>
    /\ execution["r1"].predict_state_configuration = ConfigWhole
    /\ output["r1"] # <<>>

(***************************************************************************)
(* C23.  An event of a kind the run loop has no branch for (a type that is *)
(* no member of RuntimeEventTypes, or a MetaEvent whose name is neither    *)
(* PredictState nor Exit) is taken from the queue and nothing else         *)
(* happens: no output, no change of the execution state, no error, and the *)
(* loop goes on to wait for the next event.                                *)
(***************************************************************************)
IsUnknown(event) ==
    \/ event.type \notin { EnumMember(w) : w \in RuntimeEventTypes }
    \/ /\ IsType(event, "MetaEvent")
       /\ event.name \notin {EnumMember("PredictState"), EnumMember("Exit")}

UnknownIsNoOp ==
    (Takes("r1") /\ IsUnknown(Head(queue["r1"])))
        => /\ execution'["r1"] = execution["r1"]
           /\ output'["r1"] = output["r1"]
           /\ result'["r1"] = result["r1"]
           /\ cpc'["r1"] = "yield_control"

C23_UnknownEventIsNoOp == [][UnknownIsNoOp]_vars

\* an event of an unknown type and a MetaEvent of another name were taken, and
\* the event published after them has been forwarded
C23_Witness ==
    /\ Len(dequeued["r1"]) >= 3
    /\ dequeued["r1"][1].type = EnumMember("Custom")
    /\ IsType(dequeued["r1"][2], "MetaEvent")
    /\ dequeued["r1"][2].name = EnumMember("LangGraphInterruptEvent")
    /\ IsType(dequeued["r1"][3], "TextMessageStart")
    /\ output["r1"] = <<emit_runtime_event(dequeued["r1"][3])>>
    /\ result["r1"] = None

(***************************************************************************)
(* C24.  Handling NodeStarted sets node_name and state from the event and  *)
(* outputs one text of one line, a snapshot with active = true and         *)
(* running = true; handling NodeFinished sets state from the event and     *)
(* outputs one text of one line, a snapshot with active = false and        *)
(* running = true.  Both snapshots carry thread_id, agent_name and run_id  *)
(* of the run, and no step changes these three.                            *)
(***************************************************************************)
\* the step outputs one text of one line, a snapshot with this active flag
\* built from the execution state the step leaves
OutputsOneSnapshot(r, active) ==
    /\ Len(output'[r]) = Len(output[r]) + 1
    /\ SubSeq(output'[r], 1, Len(output[r])) = output[r]
    /\ Len(Last(output'[r])) = 1
    /\ LET line == Last(output'[r])[1]
           e == execution'[r]
       IN  /\ line.type = "AgentStateMessage"
           /\ line.active = active
           /\ line.running = TRUE
           /\ line.threadId = NewExecution(r).thread_id
           /\ line.agentName = NewExecution(r).agent_name
           /\ line.runId = NewExecution(r).run_id
           /\ line.nodeName = e.node_name
           /\ json_loads(line.state) = Overlay(e.state, <<>>, {"messages", "id"})

NodeEventsHandled ==
    /\ (Takes("r1") /\ IsType(Head(queue["r1"]), "NodeStarted"))
           => /\ execution'["r1"].node_name = Head(queue["r1"]).node_name
              /\ execution'["r1"].state = Head(queue["r1"]).state
              /\ OutputsOneSnapshot("r1", TRUE)
    /\ (Takes("r1") /\ IsType(Head(queue["r1"]), "NodeFinished"))
           => /\ execution'["r1"].node_name = execution["r1"].node_name
              /\ execution'["r1"].state = Head(queue["r1"]).state
              /\ OutputsOneSnapshot("r1", FALSE)

IdentityOf(ex) == <<ex.thread_id, ex.agent_name, ex.run_id>>

C24_NodeSnapshots ==
    /\ [](IdentityOf(execution["r1"]) = IdentityOf(NewExecution("r1")))
    /\ [][NodeEventsHandled]_vars

\* NodeStarted and later NodeFinished were handled, each with a state of its
\* own: two snapshots are out, the first active, the last not
C24_Witness ==
    /\ Len(dequeued["r1"]) >= 2
    /\ IsType(Last(dequeued["r1"]), "NodeFinished")
    /\ IsType(dequeued["r1"][1], "NodeStarted")
    /\ dequeued["r1"][1].state # Last(dequeued["r1"]).state
    /\ execution["r1"].node_name = "node_a"
    /\ execution["r1"].state = StateCount
    /\ Len(Snapshots("r1")) = 2
    /\ Snapshots("r1")[1].active = TRUE
    /\ Snapshots("r1")[2].active = FALSE
    /\ Snapshots("r1")[2].running = TRUE

(***************************************************************************)
(* C25.  is_finished goes from false to true and never back; it becomes    *)
(* true only in the step that handles RunFinished or RunError; and once it *)
(* is true the consumer takes no further event from the queue.             *)
(***************************************************************************)
FinishedIsFinal ==
    LET was == execution["r1"].is_finished
        is == execution'["r1"].is_finished
    IN  /\ was => is
        /\ (~was /\ is) =>
               /\ Takes("r1")
               /\ \/ IsType(Head(queue["r1"]), "RunFinished")
                  \/ IsType(Head(queue["r1"]), "RunError")
        /\ was => dequeued'["r1"] = dequeued["r1"]

C25_RunningThenFinished ==
    /\ [](execution["r1"].is_finished \in BOOLEAN)
    /\ [][FinishedIsFinal]_vars

\* RunError finished the run, an event published after it is left in the queue
\* of the ended run, and is_finished is still true
C25_Witness ==
    /\ execution["r1"].is_finished
    /\ IsType(Last(dequeued["r1"]), "RunError")
    /\ queue["r1"] # <<>>
    /\ cpc["r1"] = "done"
    /\ result["r1"] = "StopAsyncIteration"

(***************************************************************************)
(* C26.  The events of a run in the order of their enqueuing are the       *)
(* events taken so far followed by the events still queued.  No step       *)
(* changes this order: a publish, urgent or not, adds its event at the end *)
(* and leaves the events already queued where they are, and the consumer   *)
(* takes the event at the head and handles events in the order it took     *)
(* them.                                                                   *)
(***************************************************************************)
Enqueued(r) == dequeued[r] \o queue[r]

IsExtension(before, after) ==
    /\ Len(after) = Len(before) + 1
    /\ SubSeq(after, 1, Len(before)) = before

FifoKept ==
    /\ \/ Enqueued("r1")' = Enqueued("r1")
       \/ /\ IsExtension(Enqueued("r1"), Enqueued("r1")')
          /\ IsExtension(queue["r1"], queue'["r1"])
    /\ dequeued'["r1"] # dequeued["r1"] =>
           /\ queue["r1"] # <<>>
           /\ dequeued'["r1"] = Append(dequeued["r1"], Head(queue["r1"]))
           /\ queue'["r1"] = Tail(queue["r1"])

C26_PriorityKeepsFifo == [][FifoKept]_vars

\* the event of a normal publish of fn is queued, and behind it the event of an
\* urgent publish the child task made later
C26_Witness ==
    /\ loop.call["fn"] # <<>> /\ loop.call["child"] # <<>>
    /\ ~loop.call["fn"].priority
    /\ loop.call["child"].priority
    /\ queue["r1"] = <<loop.call["fn"].event, loop.call["child"].event>>

(***************************************************************************)
(* C27.  While a task is suspended in the leading yield of a normal        *)
(* queue_put(x), x is not enqueued; an urgent queue_put(y) that another    *)
(* task makes meanwhile enqueues y in the step of the call, so y is in the *)
(* queue before x.                                                         *)
(***************************************************************************)
IsEnqueued(r, event) == \E i \in 1..Len(Enqueued(r)) : Enqueued(r)[i] = event

\* task p calls queue_put with priority in this step
UrgentCall(p) ==
    /\ loop'.calls[p] = loop.calls[p] + 1
    /\ loop'.call[p].priority

PendingNotEnqueued ==
    \A a \in Producers :
        loop.pc[a] = "leading_yield" => ~IsEnqueued("r1", loop.call[a].event)

UrgentSkipsAhead ==
    \A p \in Producers, a \in Producers :
        (a # p /\ loop.pc[a] = "leading_yield" /\ UrgentCall(p))
            => /\ queue'["r1"] = Append(queue["r1"], loop'.call[p].event)
               /\ loop'.pc[a] = "leading_yield"
               /\ ~IsEnqueued("r1", loop.call[a].event)'

C27_UrgentSkipsAhead == []PendingNotEnqueued /\ [][UrgentSkipsAhead]_vars

\* fn is suspended in the leading yield of its first publish, in whose step it
\* created the child task; the child has made an urgent publish since, and its
\* event is queued
C27_Witness ==
    /\ loop.pc["fn"] = "leading_yield"
    /\ loop.calls["fn"] = 1
    /\ ~loop.call["fn"].priority
    /\ loop.calls["child"] = 1
    /\ loop.call["child"].priority
    /\ queue["r1"] = <<loop.call["child"].event>>

(***************************************************************************)
(* C28.  A task that has enqueued an event is suspended in the trailing    *)
(* yield of its queue_put, urgent or not: it does not run again before the *)
(* callbacks that were ready.  So when fn alone publishes, one normal      *)
(* publish after the other, and the caller asks for the next text as soon  *)
(* as it has one, every event is enqueued on an empty queue: the event     *)
(* before it has been taken and handled.                                   *)
(***************************************************************************)
InReady(kind, t) ==
    \E i \in 1..Len(loop.ready) : loop.ready[i] = Callback(kind, t)

\* task p enqueues in this step
Puts(p) ==
    /\ Len(queue'["r1"]) = Len(queue["r1"]) + 1
    /\ loop.pc[p] # "trailing_yield" \/ loop'.calls[p] # loop.calls[p]
    /\ loop'.pc[p] = "trailing_yield"
    /\ Last(queue'["r1"]) = loop'.call[p].event

SuspendsAfterPut ==
    /\ Len(queue'["r1"]) > Len(queue["r1"]) => \E p \in Producers : Puts(p)
    /\ \A p \in Producers :
           Puts(p) => /\ InReady("set_result", p)'
                      /\ ~InReady("step", p)'

\* fn alone has published, never with priority, and the caller was never slow
OneNormalProducer ==
    /\ loop.pc["child"] = "unstarted"
    /\ ~loop.urgent
    /\ ~loop.late

HandledBeforeNext ==
    (OneNormalProducer' /\ Len(queue'["r1"]) > Len(queue["r1"]))
        => /\ queue["r1"] = <<>>
           /\ Len(dequeued["r1"]) = loop.calls["fn"] - 1
           /\ loop.getter

C28_ProducerSuspendsAfterPublish ==
    /\ [](OneNormalProducer => Len(queue["r1"]) <= 1)
    /\ [][SuspendsAfterPut /\ HandledBeforeNext]_vars

\* fn has made two normal publishes, the first forwarded to a caller that
\* asked for the next text at once; both events have been taken, in order
C28_Witness ==
    /\ OneNormalProducer
    /\ loop.calls["fn"] = 2
    /\ Len(dequeued["r1"]) = 2
    /\ IsType(dequeued["r1"][1], "TextMessageContent")
    /\ dequeued["r1"][2] = loop.call["fn"].event
    /\ output["r1"] # <<>>

(***************************************************************************)
(* protocol.py: emit_runtime_events as a function of its arguments.  The   *)
(* caller passes one to MaxEvents events; the call returns the text.       *)
(***************************************************************************)
MaxEvents == 3

\* the events a caller passes: every constructor whose values are str, None
\* or bool, with a line break, a quote and a backslash inside the str values
EmitPool ==
    << text_message_start("m1", None),
       text_message_content("m1", <<"a", Newline, "b">>),
       text_message_end("m1"),
       action_execution_start("e1", "search", "m1"),
       action_execution_args("e1", <<"{", Quote, "q", Quote, ":", Quote, Backslash,
                                     Newline, Quote, "}">>),
       action_execution_end("e1"),
       action_execution_result("search", "e1", <<Newline>>),
       meta_event("Exit", TRUE) >>

InitEmit ==
    /\ InitRuns({<<>>})
    /\ \E n \in 1..MaxEvents :
         \E places \in [1..n -> 1..Len(EmitPool)] :
           call = [fn |-> "emit_runtime_events",
                   args |-> [i \in 1..n |-> EmitPool[places[i]]],
                   made |-> FALSE,
                   outcome |-> <<>>]

\* the call is made and returns
Emit ==
    /\ call.fn = "emit_runtime_events"
    /\ ~call.made
    /\ call' = [call EXCEPT !.made = TRUE, !.outcome = EmitText(call.args)]
    /\ UNCHANGED <<queue, execution, cpc, task, output, dequeued, result, script,
                   free, callerCtx, taskCtx, childCtx, token, loop>>

NextEmit == Emit

SpecEmit == InitEmit /\ [][NextEmit]_vars

\* the lines of a text: what each line break ends, and what follows the last
\* one
SplitLines(text) ==
    LET breaks == { i \in 1..Len(text) : text[i] = Newline }
        ends == breaks \cup (IF text # <<>> /\ Len(text) \notin breaks
                                THEN {Len(text) + 1} ELSE {})
        EndOf(k) == CHOOSE e \in ends : Cardinality({ x \in ends : x <= e }) = k
    IN  [k \in 1..Cardinality(ends) |->
            SubSeq(text, IF k = 1 THEN 1 ELSE EndOf(k - 1) + 1, EndOf(k) - 1)]

\* how many line breaks a text holds
LineBreaks(text) == Cardinality({ i \in 1..Len(text) : text[i] = Newline })

\* a line is a JSON object whose first item is "type": the wire string
TypeOfLine(line) ==
    IF /\ Len(line) >= 10
       /\ SubSeq(line, 1, 7) = <<"{", Quote, "type", Quote, ":", " ", Quote>>
       /\ line[9] = Quote
       /\ Last(line) = "}"
    THEN line[8] ELSE None

\* the text has one line for each event, in the order of the arguments, each
\* ended by one line break and carrying the wire string of its event
LinesFollowArguments ==
    (call.fn = "emit_runtime_events" /\ call.made) =>
        LET text == call.outcome
            lines == SplitLines(text)
            n == Len(call.args)
        IN  /\ Len(text) > 0 /\ Last(text) = Newline
            /\ LineBreaks(text) = n
            /\ Len(lines) = n
            /\ \A i \in 1..n :
                 /\ TypeOfLine(lines[i]) = EnumValue(call.args[i].type)
                 /\ TypeOfLine(lines[i]) \in RuntimeEventTypes
                 /\ lines[i] = DumpLine(serialize_event(call.args[i]))
            /\ \A i, j \in 1..n :
                 call.args[i].type # call.args[j].type
                     => TypeOfLine(lines[i]) # TypeOfLine(lines[j])

\* every member's value is a str of the wire vocabulary, and no two members
\* share a value
WireStringsDistinct ==
    /\ \A m \in DOMAIN RuntimeEventTypeMembers :
         /\ RuntimeEventTypeMembers[m] \in STRING
         /\ RuntimeEventTypeMembers[m] \in RuntimeEventTypes
    /\ \A m1, m2 \in DOMAIN RuntimeEventTypeMembers :
         m1 # m2 => RuntimeEventTypeMembers[m1] # RuntimeEventTypeMembers[m2]
    /\ Cardinality(DOMAIN RuntimeEventTypeMembers) = Cardinality(RuntimeEventTypes)

\* C29: serializing n >= 1 events gives exactly n lines in the order of the
\* arguments, each ended by a single line break and each carrying as its type
\* the wire string of its event's variant; the values of RuntimeEventTypes are
\* strings, distinct for distinct variants, so events of different kinds
\* never get the same type.
C29_OneLinePerEvent == LinesFollowArguments /\ WireStringsDistinct

\* three events of three kinds were serialized, among them a text whose
\* content holds a line break, and the text has three lines
C29_Witness ==
    /\ call.fn = "emit_runtime_events"
    /\ call.made
    /\ Len(call.args) = 3
    /\ call.args[1].type = EnumMember("TextMessageStart")
    /\ call.args[2].type = EnumMember("TextMessageContent")
    /\ call.args[3].type = EnumMember("MetaEvent")
    /\ Len(SplitLines(call.outcome)) = 3
    /\ TypeOfLine(SplitLines(call.outcome)[3]) = "MetaEvent"

(***************************************************************************)
(* sdk.py, action.py: CopilotKitRemoteEndpoint.execute_action as a         *)
(* function of the endpoint's actions and the requested name.  The method  *)
(* is a plain function; Action.execute is a coroutine function, so calling *)
(* it runs nothing: the handler runs when the caller awaits what           *)
(* execute_action returned.                                                *)
(***************************************************************************)
MaxActions == 2

ActionNames == {"search", "boom"}

\* an Action: its name, whether its handler is a coroutine function, and
\* whether the handler raises when it runs
ActionRecords ==
    [name : ActionNames, handler : {"sync", "async"}, raises : BOOLEAN]

\* how a call or an await ends: with a value, or with an exception and the
\* error it wraps
Returns(kind, action) ==
    [ends |-> "returns", value |-> kind, action |-> action,
     exception |-> None, cause |-> None]

Raises(exception, cause) ==
    [ends |-> "raises", value |-> None, action |-> <<>>,
     exception |-> exception, cause |-> cause]

\* the positions of the actions with the name
Named(actions, name) == { i \in 1..Len(actions) : actions[i].name = name }

\* _get_action: the first action with the name, or ActionNotFoundException
_get_action(actions, name) ==
    IF Named(actions, name) = {} THEN Raises("ActionNotFoundException", None)
    ELSE Returns("action",
                 actions[CHOOSE i \in Named(actions, name) :
                            \A j \in Named(actions, name) : i <= j])

\* a variant of ActionExecuteCall: the body of execute runs in the call
ActionExecuteCallRuns(action) ==
    IF action.raises THEN Raises("HandlerError", None)
    ELSE Returns("result", action)

\* action.execute(arguments=arguments): calling a coroutine function creates
\* the coroutine and runs none of its body
ActionExecuteCall(action) == Returns("coroutine", action)

\* the body of Action.execute, run by the await: the handler is called, and
\* awaited when it is a coroutine function; what it raises leaves the body
ActionExecuteBody(action) ==
    IF action.raises THEN Raises("HandlerError", None)
    ELSE Returns("result", action)

\* try: return action.execute(...)  except Exception as error: raise
\* ActionExecutionException(name, error) from error
execute_action(actions, name) ==
    LET found == _get_action(actions, name)
    IN  IF found.ends = "raises" THEN found
        ELSE LET tried == ActionExecuteCall(found.action)
             IN  IF tried.ends = "raises"
                 THEN Raises("ActionExecutionException", tried.exception)
                 ELSE tried

InitAction ==
    /\ InitRuns({<<>>})
    /\ \E n \in 0..MaxActions :
         \E actions \in [1..n -> ActionRecords] :
           \E name \in ActionNames \cup {"missing"} :
             call = [fn |-> "execute_action", actions |-> actions, name |-> name,
                     stage |-> "start",
                     outcome |-> Returns(None, <<>>)]

\* the caller calls execute_action
ExecuteAction ==
    /\ call.fn = "execute_action"
    /\ call.stage = "start"
    /\ call' = [call EXCEPT !.stage = "called",
                            !.outcome = execute_action(call.actions, call.name)]
    /\ UNCHANGED <<queue, execution, cpc, task, output, dequeued, result, script,
                   free, callerCtx, taskCtx, childCtx, token, loop>>

\* the caller awaits what the call returned: a coroutine runs its body, a
\* result is what the await gives
AwaitAction ==
    /\ call.fn = "execute_action"
    /\ call.stage = "called"
    /\ call.outcome.ends = "returns"
    /\ call' = [call EXCEPT !.stage = "awaited",
                            !.outcome = IF call.outcome.value = "coroutine"
                                        THEN ActionExecuteBody(call.outcome.action)
                                        ELSE call.outcome]
    /\ UNCHANGED <<queue, execution, cpc, task, output, dequeued, result, script,
                   free, callerCtx, taskCtx, childCtx, token, loop>>

NextAction == ExecuteAction \/ AwaitAction

SpecAction == InitAction /\ [][NextAction]_vars

\* the caller has its answer: the call raised, or the await is over
Answered ==
    /\ call.fn = "execute_action"
    /\ \/ call.stage = "awaited"
       \/ call.stage = "called" /\ call.outcome.ends = "raises"

\* the action the name selects has a handler that raises
HandlerFails ==
    /\ Named(call.actions, call.name) # {}
    /\ _get_action(call.actions, call.name).action.raises

\* a name no action has is answered by ActionNotFoundException
UnknownNameNotFound ==
    (Answered /\ Named(call.actions, call.name) = {})
        => /\ call.outcome.ends = "raises"
           /\ call.outcome.exception = "ActionNotFoundException"

\* an error of the handler is answered by ActionExecutionException wrapping it
HandlerErrorWrapped ==
    (Answered /\ HandlerFails)
        => /\ call.outcome.ends = "raises"
           /\ call.outcome.exception = "ActionExecutionException"
           /\ call.outcome.cause = "HandlerError"

\* C30: execute_action raises ActionNotFoundException when no action has the
\* name, and an error raised while the handler runs reaches the caller as
\* ActionExecutionException wrapping the original error, for synchronous and
\* asynchronous handlers alike, never as the raw handler exception.
C30_HandlerErrorsAreWrapped == UnknownNameNotFound /\ HandlerErrorWrapped

\* C30, its first half alone: a name no action has is answered by
\* ActionNotFoundException, raised by the call itself.
C30_UnknownNameRaisesNotFound == UnknownNameNotFound

\* what the code does with an error of the handler: the caller who awaits
\* gets the handler's own exception, from either kind of handler
C30_HandlerErrorIsRaw ==
    (Answered /\ HandlerFails)
        => /\ call.stage = "awaited"
           /\ call.outcome.ends = "raises"
           /\ call.outcome.exception = "HandlerError"

\* an action with a failing synchronous handler was executed and awaited
C30_Witness ==
    /\ Answered
    /\ HandlerFails
    /\ _get_action(call.actions, call.name).action.handler = "sync"
    /\ call.outcome.exception = "HandlerError"

(***************************************************************************)
(* C31.  The loop of copilotkit_run ends only by the break after           *)
(* RunFinished or RunError; the end of the producer task ends nothing.     *)
(***************************************************************************)
TerminalHandled(r) ==
    \E i \in 1..Len(dequeued[r]) :
        IsType(dequeued[r][i], "RunFinished") \/ IsType(dequeued[r][i], "RunError")

\* the generator has left its while loop by itself (the caller did not close it)
LeftLoop(r) == cpc[r] \in {"await_task", "done", "raised"}

\* the producer task is over, nothing is queued, and the generator waits in
\* local_queue.get()
BlockedOnGet(r) ==
    /\ task[r] \in {"returned", "raised"}
    /\ queue[r] = <<>>
    /\ cpc[r] = "get"

\* C31: the consumer loop exits only after handling RunFinished or RunError;
\* the end of the producer task is no termination condition, so a producer that
\* returns or raises without a terminating event leaves the consumer blocked
\* on the queue for ever, and its exception never reaches the caller.
C31_ExitsOnlyAfterTerminal ==
    /\ [](LeftLoop("r1") => TerminalHandled("r1"))
    /\ [](result["r1"] = ProducerError => TerminalHandled("r1"))
    /\ [][~BlockedOnGet("r1")]_vars

\* C31, on the runs in which no handler raised: the loop is left only after a
\* terminating event, the producer's exception reaches the caller only then,
\* and a consumer blocked behind a producer that is over never moves again.
C31_ExitsOnlyAfterTerminalUnlessHandlerRaised ==
    /\ []((LeftLoop("r1") /\ result["r1"] # "AttributeError") => TerminalHandled("r1"))
    /\ [](result["r1"] = ProducerError => TerminalHandled("r1"))
    /\ [][~BlockedOnGet("r1")]_vars

\* the producer raised without a terminating event and the consumer, having
\* handled what was published, waits on the empty queue
C31_Witness ==
    /\ task["r1"] = "raised"
    /\ BlockedOnGet("r1")
    /\ Len(dequeued["r1"]) >= 1
    /\ ~TerminalHandled("r1")
    /\ result["r1"] = None

(***************************************************************************)
(* C32.  argument_buffer and current_tool_call as functions of the events  *)
(* handled so far.                                                         *)
(***************************************************************************)
IsToolStart(event) == IsType(event, "ActionExecutionStart")

IsToolArgs(event) == IsType(event, "ActionExecutionArgs")

IsNodeFinished(event) == IsType(event, "NodeFinished")

\* the place of the last handled event that satisfies P(_), 0 if there is none
LastPlace(events, P(_)) ==
    LET places == { i \in 1..Len(events) : P(events[i]) }
    IN  IF places = {} THEN 0 ELSE CHOOSE i \in places : \A j \in places : j <= i

IsBufferReset(event) == IsToolStart(event) \/ IsNodeFinished(event)

\* the args chunks of the ToolArgs events after place k, concatenated in the
\* order of arrival
RECURSIVE ChunksAfter(_, _)
ChunksAfter(events, k) ==
    IF k >= Len(events) THEN <<>>
    ELSE (IF IsToolArgs(events[k + 1]) THEN events[k + 1].args ELSE <<>>)
         \o ChunksAfter(events, k + 1)

ExpectedBuffer(events) == ChunksAfter(events, LastPlace(events, IsBufferReset))

\* the tool of the last ToolStart, unless a NodeFinished came after it
ExpectedToolCall(events) ==
    LET start == LastPlace(events, IsToolStart)
    IN  IF start > LastPlace(events, IsNodeFinished)
            THEN events[start].actionName
        ELSE None

BufferFollowsEvents ==
    /\ execution["r1"].argument_buffer = ExpectedBuffer(dequeued["r1"])
    /\ execution["r1"].current_tool_call = ExpectedToolCall(dequeued["r1"])

\* the events that only pass through: ToolEnd, ToolResult, the text events
\* and a snapshot the producer published
PassesThrough(event) ==
    \/ IsType(event, "ActionExecutionEnd")
    \/ IsType(event, "ActionExecutionResult")
    \/ IsType(event, "TextMessageStart")
    \/ IsType(event, "TextMessageContent")
    \/ IsType(event, "TextMessageEnd")
    \/ IsType(event, "AgentStateMessage")

PassThroughKeepsState ==
    (Takes("r1") /\ PassesThrough(Last(dequeued'["r1"])))
        => execution'["r1"] = execution["r1"]

ToolStartEmitsNoSnapshot ==
    (Takes("r1") /\ IsToolStart(Last(dequeued'["r1"])))
        => /\ Len(output'["r1"]) = Len(output["r1"]) + 1
           /\ Last(output'["r1"]) = <<serialize_event(Last(dequeued'["r1"]))>>

\* C32: in every reachable state argument_buffer is the concatenation, in
\* arrival order, of the args of the ToolArgs events handled since the last
\* ToolStart or NodeFinished, whatever their ids, and current_tool_call is the
\* tool of the last ToolStart handled since the last NodeFinished (None if
\* none); ToolEnd, ToolResult, text events and forwarded snapshots leave the
\* execution state unchanged, and a ToolStart produces no snapshot.
C32_BufferFollowsEvents ==
    /\ []BufferFollowsEvents
    /\ [][PassThroughKeepsState /\ ToolStartEmitsNoSnapshot]_vars

\* two chunks were handled after a ToolStart, then a ToolEnd and a ToolResult
\* passed through with the buffer and the tool kept
C32_Witness ==
    /\ Len(dequeued["r1"]) >= 6
    /\ IsToolStart(dequeued["r1"][2])
    /\ IsToolArgs(dequeued["r1"][3])
    /\ IsToolArgs(dequeued["r1"][4])
    /\ IsType(dequeued["r1"][5], "ActionExecutionEnd")
    /\ IsType(dequeued["r1"][6], "ActionExecutionResult")
    /\ execution["r1"].argument_buffer = DocAlice
    /\ execution["r1"].current_tool_call = "update_user"

(***************************************************************************)
(* C33.  A ToolArgs event that marks a key updated emits one snapshot,     *)
(* whether or not the predicted state changed; predictions overwrite and   *)
(* are never taken back.                                                   *)
(***************************************************************************)
\* the first entry at which the loop of predict_state raises: an entry of the
\* current tool with tool_argument, the parsed value not being a dict
FirstRaise(cfg, tool, parsed) ==
    LET raising == { i \in 1..Len(cfg) : /\ cfg[i].tool_name = tool
                                         /\ "tool_argument" \in DOMAIN cfg[i]
                                         /\ parsed.kind # "object" }
    IN  IF raising = {} THEN Len(cfg) + 1
        ELSE CHOOSE i \in raising : \A j \in raising : i <= j

\* the entries the loop marks updated (emit_update = True)
MarkedEntries(cfg, tool, parsed) ==
    { i \in 1..Len(cfg) :
        /\ i < FirstRaise(cfg, tool, parsed)
        /\ cfg[i].tool_name = tool
        /\ ("tool_argument" \in DOMAIN cfg[i]) => ArgumentPresent(cfg[i], parsed) }

ParsedNow(r) == PartialJSONParse(execution[r].argument_buffer \o Head(queue[r]).args).val

MarksUpdate(r) ==
    /\ TakesParsedArgs(r)
    /\ MarkedEntries(execution[r].predict_state_configuration,
                     execution[r].current_tool_call, ParsedNow(r)) # {}

\* a marked update gives the line of the event and one snapshot
MarkedEmitsOne(r) == MarksUpdate(r) => EmitsPrediction(r)

\* on a ToolArgs event no predicted key is lost, every marked entry has the
\* value of this parse, and every other key keeps its value
OverwritesNeverRollsBack(r) ==
    (Takes(r) /\ IsToolArgs(Head(queue[r])))
        => LET before == execution[r].predicted_state
               after == execution'[r].predicted_state
               cfg == execution[r].predict_state_configuration
               marked == IF TakesParsedArgs(r)
                            THEN MarkedEntries(cfg, execution[r].current_tool_call,
                                               ParsedNow(r))
                         ELSE {}
           IN  /\ (DOMAIN before) \subseteq (DOMAIN after)
               /\ \A k \in DOMAIN before :
                      (\A i \in marked : cfg[i].key # k) => after[k] = before[k]
               /\ \A i \in marked :
                      after[cfg[i].key] =
                          IF "tool_argument" \in DOMAIN cfg[i]
                              THEN ParsedNow(r).members[cfg[i].tool_argument]
                          ELSE ParsedNow(r)

\* C33: prediction does no diffing: every ToolArgs event that marks at least
\* one key updated emits exactly one snapshot, even when the predicted state
\* is the one of the previous snapshot; a repeated prediction overwrites the
\* old value, and a predicted value is never rolled back when a later chunk
\* yields nothing for its key.
C33_MarkedUpdateEmitsSnapshot ==
    [][MarkedEmitsOne("r1") /\ OverwritesNeverRollsBack("r1")]_vars

\* C33, for the events whose parsed value is an object (no entry raises):
\* every marked update emits its one snapshot; and for all events, predictions
\* overwrite and are never rolled back.
C33_MarkedObjectUpdateEmitsSnapshot ==
    [][/\ IF TakesParsedArgs("r1")
              THEN (ParsedNow("r1").kind = "object") => MarkedEmitsOne("r1")
          ELSE TRUE
       /\ OverwritesNeverRollsBack("r1")]_vars

\* two prediction snapshots in a row carry the same state, and a later chunk
\* that had nothing for the key left the predicted name in place
C33_Witness ==
    /\ Len(output["r1"]) = 5
    /\ Len(output["r1"][2]) = 2
    /\ Len(output["r1"][3]) = 2
    /\ output["r1"][2][2].state = output["r1"][3][2].state
    /\ IsToolArgs(Last(dequeued["r1"]))
    /\ Len(Last(output["r1"])) = 1
    /\ Last(dequeued["r1"]).args = DocOther
    /\ "name" \in DOMAIN execution["r1"].predicted_state
    /\ execution["r1"].predicted_state["name"] = JString(<<"A", "l", "i", "c", "e">>)

(***************************************************************************)
(* C34.  Whatever the interleaving of the tasks and whatever the mix of    *)
(* urgent and normal publishes, the events of one task are enqueued, and   *)
(* output, in the order of that task's queue_put calls.                    *)
(***************************************************************************)
\* the task that published an event and the number of its call
OriginOf(event) ==
    IF IsType(event, "TextMessageContent") THEN <<event.messageId, event.content>>
    ELSE event.value

CallNo(label) == CHOOSE n \in 1..Len(CallLabel) : CallLabel[n] = label

\* the places of the events of task p
PlacesOf(events, p) == { i \in 1..Len(events) : OriginOf(events[i])[1] = p }

\* the k-th event of p among the events is the event of p's k-th call
InProgramOrder(events, p) ==
    \A i \in PlacesOf(events, p) :
        CallNo(OriginOf(events[i])[2]) =
            Cardinality({ j \in PlacesOf(events, p) : j <= i })

\* the forwarded lines of task p, in the order of output
TextLinesOf(p) ==
    { i \in 1..Len(output["r1"]) : output["r1"][i][1].messageId = p }

OutputInProgramOrder(p) ==
    \A i, j \in TextLinesOf(p) :
        i < j => CallNo(output["r1"][i][1].content) < CallNo(output["r1"][j][1].content)

\* C34: under any interleaving of several producer tasks publishing into one
\* run, the events of each task are enqueued, and therefore output, in the
\* order of that task's queue_put calls, whatever mix of urgent and normal
\* publishes it uses.
C34_ProgramOrderPerTask ==
    \A p \in Producers :
        /\ InProgramOrder(Enqueued("r1"), p)
        /\ OutputInProgramOrder(p)

\* the two tasks have each published twice, urgent and normal publishes among
\* them, their events alternate in the queue order, and the two texts of fn
\* have been output
C34_Witness ==
    /\ Len(Enqueued("r1")) = 4
    /\ loop.urgent
    /\ ~loop.call["fn"].priority
    /\ OriginOf(Enqueued("r1")[1])[1] = "fn"
    /\ OriginOf(Enqueued("r1")[2])[1] = "child"
    /\ OriginOf(Enqueued("r1")[3])[1] = "fn"
    /\ OriginOf(Enqueued("r1")[4])[1] = "child"
    /\ Cardinality(TextLinesOf("fn")) = 2

(***************************************************************************)
(* SpecBatch: one run under the event loop, its tasks calling queue_put    *)
(* with one or two events.  The for loop of queue_put awaits Queue.put for *)
(* each event; Queue.put suspends only while the queue is full, and        *)
(* Queue.get wakes the first task suspended there.                         *)
(***************************************************************************)
MaxBatch == 2

\* queue_put calls of one task in SpecBatch
MaxBatchCalls == 1

\* the k-th of the size events of the n-th queue_put call of task p: the first
\* is forwarded, the others are not
BatchEvent(p, n, k, size) ==
    IF k = 1 THEN text_message_content(p, <<CallLabel[n], k, size>>)
    ELSE meta_event("LangGraphInterruptEvent", <<p, CallLabel[n], k, size>>)

\* for event in events: await q.put(event), up to the put that suspends
RECURSIVE PutLoop(_, _, _)
PutLoop(q, todo, priority) ==
    IF todo = <<>> \/ Full(q) THEN [queue |-> q, todo |-> todo]
    ELSE PutLoop(Enqueue(q, Head(todo), priority), Tail(todo), priority)

\* task p runs the for loop of its call from the events in todo, with the
\* callbacks in ready behind it: it ends in the trailing yield_control, or
\* suspended in Queue.put
RunPuts(p, started, ready, todo, priority) ==
    LET put == PutLoop(queue["r1"], todo, priority)
        woken == IF put.todo # todo THEN WakeGetter(ready) ELSE ready
    IN  /\ queue' = [queue EXCEPT !["r1"] = put.queue]
        /\ loop' = [started EXCEPT
                       !.call[p].todo = put.todo,
                       !.getter = IF put.todo # todo THEN FALSE ELSE @,
                       !.pc[p] = IF put.todo = <<>> THEN "trailing_yield"
                                 ELSE "put_wait",
                       !.putters = IF put.todo = <<>> THEN @ ELSE Append(@, p),
                       !.ready = IF put.todo = <<>> THEN TrailingYield(woken, p)
                                 ELSE woken]

\* task p calls queue_put(*events, priority=priority) with size events; fn may
\* create the child task before the call
BatchCalls(p, size, priority, spawn) ==
    /\ IsNext("step", p)
    /\ loop.pc[p] \in {"code", "trailing_yield"}
    /\ loop.calls[p] < MaxBatchCalls
    /\ spawn => (p = "fn" /\ loop.pc["child"] = "unstarted")
    /\ LET n == loop.calls[p] + 1
           events == [k \in 1..size |-> BatchEvent(p, n, k, size)]
           created == IF spawn THEN Append(Tail(loop.ready), Callback("step", "child"))
                      ELSE Tail(loop.ready)
           started == [loop EXCEPT !.call[p] = [event |-> events[1],
                                                priority |-> priority,
                                                todo |-> events],
                                   !.calls[p] = n,
                                   !.urgent = @ \/ priority,
                                   !.pc["child"] = IF spawn THEN "code" ELSE @]
       IN  IF LeadingYield(priority)
               THEN /\ loop' = [started EXCEPT
                                   !.pc[p] = "leading_yield",
                                   !.ready = yield_control_on(created, p)]
                    /\ UNCHANGED queue
               ELSE RunPuts(p, started, created, events, priority)
    /\ UNCHANGED call
    /\ UNCHANGED <<execution, cpc, task, output, dequeued, result, script, free,
                   callerCtx, taskCtx, childCtx, token>>

\* task p comes back from the leading yield of its call, or from a Queue.put
\* that had suspended: the puts that remain
BatchPuts(p) ==
    /\ IsNext("step", p)
    /\ loop.pc[p] \in {"leading_yield", "put_wait"}
    /\ RunPuts(p, loop, Tail(loop.ready), loop.call[p].todo, loop.call[p].priority)
    /\ UNCHANGED call
    /\ UNCHANGED <<execution, cpc, task, output, dequeued, result, script, free,
                   callerCtx, taskCtx, childCtx, token>>

NextBatch ==
    \/ FutureSetResult
    \/ \E p \in Producers, size \in 1..MaxBatch, priority \in BOOLEAN, spawn \in BOOLEAN : BatchCalls(p, size, priority, spawn)
    \/ \E p \in Producers : BatchPuts(p)
    \/ \E p \in Producers : ProducerReturns(p)
    \/ \E pull \in BOOLEAN : ConsumerRuns(pull)
    \/ CallerWakes
    \/ ConsumerPulled

SpecBatch == InitSched /\ [][NextBatch]_vars

(***************************************************************************)
(* C35.  The events of one queue_put call are enqueued together.           *)
(***************************************************************************)
\* the task, the call, the place in the call and the size of the call
TagOf(event) ==
    IF IsType(event, "TextMessageContent")
        THEN <<event.messageId, event.content[1], event.content[2], event.content[3]>>
    ELSE event.value

\* every event of a call has the call's next event right behind it and the
\* call's previous event right before it
BatchTogether(events) ==
    \A i \in 1..Len(events) :
        LET tag == TagOf(events[i])
        IN  /\ tag[3] < tag[4] =>
                   /\ i < Len(events)
                   /\ TagOf(events[i + 1]) = <<tag[1], tag[2], tag[3] + 1, tag[4]>>
            /\ tag[3] > 1 =>
                   /\ i > 1
                   /\ TagOf(events[i - 1]) = <<tag[1], tag[2], tag[3] - 1, tag[4]>>

\* the task never waits inside the for loop
NeverSuspendsInPut == \A p \in Producers : loop.pc[p] # "put_wait"

\* C35: the events passed to one queue_put call are enqueued atomically: they
\* take consecutive places of the queue order in argument order, and no event
\* of another task comes between them, because the call does not suspend
\* between its puts on the unbounded queue.
C35_CallEnqueuedTogether == BatchTogether(Enqueued("r1")) /\ NeverSuspendsInPut

\* fn and the child task have each put the two events of a call while the
\* other was inside a call of its own, and the four events are two pairs
C35_Witness ==
    /\ Len(queue["r1"]) >= 4
    /\ LET n == Len(queue["r1"])
       IN  /\ TagOf(queue["r1"][n - 3])[4] = 2
           /\ TagOf(queue["r1"][n - 1])[4] = 2
           /\ TagOf(queue["r1"][n - 3])[1] # TagOf(queue["r1"][n - 1])[1]
    /\ loop.pc["fn"] = "trailing_yield"
    /\ loop.pc["child"] = "trailing_yield"

(***************************************************************************)
(* C36.  should_exit is written by the Exit MetaEvent alone, and takes the *)
(* value the event carries.                                                *)
(***************************************************************************)
\* the value of the last Exit handled, False when there is none
ExpectedShouldExit(events) ==
    IF LastPlace(events, IsExit) = 0 THEN FALSE
    ELSE events[LastPlace(events, IsExit)].value

OnlyExitWritesShouldExit ==
    IF Takes("r1") /\ IsExit(Head(queue["r1"]))
        THEN execution'["r1"].should_exit = Head(queue["r1"]).value
    ELSE execution'["r1"].should_exit = execution["r1"].should_exit

\* C36: after an Exit MetaEvent with value v is handled should_exit equals v,
\* and no other event modifies should_exit; so should_exit stays true once
\* set unless a later Exit event carries a false value.
C36_ExitAloneSetsShouldExit ==
    /\ [](execution["r1"].should_exit = ExpectedShouldExit(dequeued["r1"]))
    /\ [][OnlyExitWritesShouldExit]_vars

\* an exit request was handled, two other events kept it, and a later Exit
\* with a false value withdrew it
C36_Witness ==
    /\ Len(dequeued["r1"]) >= 4
    /\ IsExit(dequeued["r1"][1]) /\ dequeued["r1"][1].value
    /\ IsNodeFinished(dequeued["r1"][3])
    /\ IsExit(dequeued["r1"][4]) /\ ~dequeued["r1"][4].value
    /\ ~execution["r1"].should_exit
    /\ output["r1"] # <<>>

(***************************************************************************)
(* C37.  Only NodeFinished empties predicted_state.                        *)
(***************************************************************************)
\* a step loses a predicted key only by taking NodeFinished
OnlyNodeFinishedEmpties ==
    ~((DOMAIN execution["r1"].predicted_state)
          \subseteq (DOMAIN execution'["r1"].predicted_state))
        => (Takes("r1") /\ IsNodeFinished(Head(queue["r1"])))

\* a ToolStart and a new configuration leave predicted_state as it is
StartAndConfigKeepPredicted ==
    (Takes("r1") /\ (IsToolStart(Head(queue["r1"])) \/ IsPredictConfig(Head(queue["r1"]))))
        => execution'["r1"].predicted_state = execution["r1"].predicted_state

\* a prediction snapshot carries every key predicted before, with the value
\* predicted_state has for it now
SnapshotKeepsEarlierKeys ==
    EmitsPrediction("r1")
        => \A k \in (DOMAIN execution["r1"].predicted_state) \ ExcludeKeys :
               /\ k \in DOMAIN json_loads(Last(output'["r1"])[2].state)
               /\ json_loads(Last(output'["r1"])[2].state)[k] =
                      execution'["r1"].predicted_state[k]

\* C37: predicted_state is emptied only by NodeFinished: a new ToolStart or a
\* new PredictState configuration within the node keeps every predicted key,
\* so keys predicted during an earlier tool call or under an earlier
\* configuration are still merged into every later prediction snapshot of the
\* node.
C37_OnlyNodeFinishedEmptiesPredicted ==
    [][/\ OnlyNodeFinishedEmpties
       /\ StartAndConfigKeepPredicted
       /\ SnapshotKeepsEarlierKeys]_vars

\* the snapshot of the second tool call, made under the second configuration,
\* carries its own key and the key predicted during the first tool call
C37_Witness ==
    /\ Len(dequeued["r1"]) = 7
    /\ IsPredictConfig(dequeued["r1"][5]) /\ dequeued["r1"][5].value = ConfigSearch
    /\ IsToolStart(dequeued["r1"][6])
    /\ IsToolArgs(dequeued["r1"][7])
    /\ Len(Last(output["r1"])) = 2
    /\ Last(output["r1"])[2].type = "AgentStateMessage"
    /\ "hits" \in DOMAIN json_loads(Last(output["r1"])[2].state)
    /\ "name" \in DOMAIN json_loads(Last(output["r1"])[2].state)
    /\ json_loads(Last(output["r1"])[2].state)["name"] =
           JString(<<"A", "l", "i", "c", "e">>)

(***************************************************************************)
(* C38.  node_name is written by NodeStarted alone; the node a             *)
(* NodeFinished event names is not looked at.                              *)
(***************************************************************************)
IsNodeStarted(event) == IsType(event, "NodeStarted")

\* the node of the last NodeStarted handled, the caller's node_name before
ExpectedNodeName(r, events) ==
    IF LastPlace(events, IsNodeStarted) = 0 THEN NewExecution(r).node_name
    ELSE events[LastPlace(events, IsNodeStarted)].node_name

OnlyNodeStartedWritesNodeName ==
    execution'["r1"].node_name # execution["r1"].node_name
        => (Takes("r1") /\ IsNodeStarted(Head(queue["r1"])))

\* the snapshot for NodeFinished names the node of the last NodeStarted, and
\* the prediction fields are reset, whichever node the event names
NodeFinishedIgnoresItsName ==
    (Takes("r1") /\ IsNodeFinished(Head(queue["r1"])))
        => /\ Len(output'["r1"]) = Len(output["r1"]) + 1
           /\ Len(Last(output'["r1"])) = 1
           /\ Last(output'["r1"])[1].type = "AgentStateMessage"
           /\ Last(output'["r1"])[1].nodeName = ExpectedNodeName("r1", dequeued["r1"])
           /\ PredictionEmpty(execution'["r1"])

PredictionNamesLastStarted ==
    EmitsPrediction("r1")
        => Last(output'["r1"])[2].nodeName = ExpectedNodeName("r1", dequeued["r1"])

\* C38: the node_name carried by a NodeFinished event is ignored: the snapshot
\* emitted for NodeFinished, and every prediction snapshot, reports as nodeName
\* the name set by the last NodeStarted handled; node_name is written only by
\* NodeStarted; and the prediction reset is applied whichever node the event
\* names.
C38_NodeFinishedNameIgnored ==
    /\ [](execution["r1"].node_name = ExpectedNodeName("r1", dequeued["r1"]))
    /\ [][/\ OnlyNodeStartedWritesNodeName
          /\ NodeFinishedIgnoresItsName
          /\ PredictionNamesLastStarted]_vars

\* node_a was started and a prediction made in it; a NodeFinished that names
\* node_b was handled: its snapshot names node_a and the prediction is reset
C38_Witness ==
    /\ Len(dequeued["r1"]) = 5
    /\ IsNodeStarted(dequeued["r1"][1]) /\ dequeued["r1"][1].node_name = "node_a"
    /\ IsToolArgs(dequeued["r1"][4])
    /\ Len(output["r1"][3]) = 2
    /\ output["r1"][3][2].nodeName = "node_a"
    /\ IsNodeFinished(dequeued["r1"][5]) /\ dequeued["r1"][5].node_name = "node_b"
    /\ Last(output["r1"])[1].nodeName = "node_a"
    /\ ~Last(output["r1"])[1].active
    /\ execution["r1"].node_name = "node_a"
    /\ PredictionEmpty(execution["r1"])

====
